---- MODULE Spec2Model ----
(***************************************************************************)
(* A model of sudoku-utils: the depth-first searcher with progress, the    *)
(* template generator, the PlusN symmetric expansion and the brute-force   *)
(* band solver.                                                            *)
(*                                                                         *)
(* Option<T> values are sequences of length 0 (None) or 1 (Some).          *)
(* Bitmask<T> values are the sets of their set bit positions.              *)
(* f64 progress values are exact rationals <<numerator, denominator>>.     *)
(***************************************************************************)
EXTENDS Integers, Sequences, FiniteSets, TLC

VARIABLES
    state,      \* DepthFirstSearcherWithProgress.state, the traversable
    levels,     \* DepthFirstSearcherWithProgress.levels, the stack of frames
    progress,   \* DepthFirstSearcherWithProgress.progress
    pc,         \* "run" while next() may be called, "done" once it returned None
    ret,        \* what the last iteration of next() did: "start", "cont", "some", "none"
    last,       \* the item this iteration hands back from next(), as an Option
    emitted,    \* the grids the consumer has received, in order
    calls,      \* how many times step() has been called
    input,      \* what the searcher or the solver was constructed from
    verdict     \* the answers of the solver's public queries, as an Option

vars == <<state, levels, progress, pc, ret, last, emitted, calls, input, verdict>>

-----------------------------------------------------------------------------
(* Bounds of the abstract search trees.                                    *)

MaxBranch == 2
MaxDepth == 2
MaxProgress == 3

\* The largest digit a template of the checked family names
MaxDigit == 3

\* The largest n of the checked PlusN expansions
MaxN == 2

-----------------------------------------------------------------------------
(* Exact rationals.                                                        *)

RECURSIVE GCD(_, _)
GCD(a, b) == IF b = 0 THEN a ELSE GCD(b, a % b)

Rat(n, d) == LET g == GCD(n, d) IN <<n \div g, d \div g>>
RatAdd(x, y) ==
    LET g == GCD(x[2], y[2]) IN
    Rat(x[1] * (y[2] \div g) + y[1] * (x[2] \div g), (x[2] \div g) * y[2])
RatDivInt(x, k) == Rat(x[1], x[2] * k)
RatLeq(x, y) == x[1] * y[2] <= y[1] * x[2]
RatZero == <<0, 1>>
RatOne == <<1, 1>>

Last(s) == s[Len(s)]
Front(s) == SubSeq(s, 1, Len(s) - 1)
Range(s) == {s[i] : i \in 1..Len(s)}

Min(S) == CHOOSE x \in S : \A y \in S : x <= y
Max(S) == CHOOSE x \in S : \A y \in S : x >= y

RECURSIVE SetToSeq(_)
SetToSeq(S) ==
    IF S = {} THEN <<>>
    ELSE LET m == CHOOSE x \in S : \A y \in S : x <= y
         IN <<m>> \o SetToSeq(S \ {m})

-----------------------------------------------------------------------------
(* Region tables and RegionMaskedSudoku (pipeline.rs). Cells are 0..80,    *)
(* regions 0..8; a table entry for index i is at position i + 1.           *)

Cells == 0..80

ROW_INDICES_TABLE ==
    <<0, 0, 0, 0, 0, 0, 0, 0, 0,
     1, 1, 1, 1, 1, 1, 1, 1, 1,
     2, 2, 2, 2, 2, 2, 2, 2, 2,
     3, 3, 3, 3, 3, 3, 3, 3, 3,
     4, 4, 4, 4, 4, 4, 4, 4, 4,
     5, 5, 5, 5, 5, 5, 5, 5, 5,
     6, 6, 6, 6, 6, 6, 6, 6, 6,
     7, 7, 7, 7, 7, 7, 7, 7, 7,
     8, 8, 8, 8, 8, 8, 8, 8, 8>>
ROW_INDICES(i) == ROW_INDICES_TABLE[i + 1]

COL_INDICES_TABLE ==
    <<0, 1, 2, 3, 4, 5, 6, 7, 8,
     0, 1, 2, 3, 4, 5, 6, 7, 8,
     0, 1, 2, 3, 4, 5, 6, 7, 8,
     0, 1, 2, 3, 4, 5, 6, 7, 8,
     0, 1, 2, 3, 4, 5, 6, 7, 8,
     0, 1, 2, 3, 4, 5, 6, 7, 8,
     0, 1, 2, 3, 4, 5, 6, 7, 8,
     0, 1, 2, 3, 4, 5, 6, 7, 8,
     0, 1, 2, 3, 4, 5, 6, 7, 8>>
COL_INDICES(i) == COL_INDICES_TABLE[i + 1]

BOX_INDICES_TABLE ==
    <<0, 0, 0, 1, 1, 1, 2, 2, 2,
     0, 0, 0, 1, 1, 1, 2, 2, 2,
     0, 0, 0, 1, 1, 1, 2, 2, 2,
     3, 3, 3, 4, 4, 4, 5, 5, 5,
     3, 3, 3, 4, 4, 4, 5, 5, 5,
     3, 3, 3, 4, 4, 4, 5, 5, 5,
     6, 6, 6, 7, 7, 7, 8, 8, 8,
     6, 6, 6, 7, 7, 7, 8, 8, 8,
     6, 6, 6, 7, 7, 7, 8, 8, 8>>
BOX_INDICES(i) == BOX_INDICES_TABLE[i + 1]

\* 0b_111_111_111_0: the bits 1..9
ALL_DIGITS == 1..9

\* Sudoku::empty and RegionMaskedSudoku::empty
Sudoku_empty == [i \in Cells |-> 0]

RegionMaskedSudoku_empty ==
    [sudoku |-> Sudoku_empty,
     rows   |-> [r \in 0..8 |-> ALL_DIGITS],
     cols   |-> [c \in 0..8 |-> ALL_DIGITS],
     boxes  |-> [b \in 0..8 |-> ALL_DIGITS]]

\* place clearing the digit in the row mask only
place_row_only(rm, idx, digit) ==
    [rm EXCEPT !.sudoku[idx] = digit,
               !.rows[ROW_INDICES(idx)] = @ \ {digit}]

place(rm, idx, digit) ==
    [rm EXCEPT !.sudoku[idx] = digit,
               !.rows[ROW_INDICES(idx)] = @ \ {digit},
               !.cols[COL_INDICES(idx)] = @ \ {digit},
               !.boxes[BOX_INDICES(idx)] = @ \ {digit}]

\* unplace leaving the box mask as it is
unplace_box_kept(rm, idx, digit) ==
    [rm EXCEPT !.sudoku[idx] = 0,
               !.rows[ROW_INDICES(idx)] = @ \cup {digit},
               !.cols[COL_INDICES(idx)] = @ \cup {digit}]

unplace(rm, idx, digit) ==
    [rm EXCEPT !.sudoku[idx] = 0,
               !.rows[ROW_INDICES(idx)] = @ \cup {digit},
               !.cols[COL_INDICES(idx)] = @ \cup {digit},
               !.boxes[BOX_INDICES(idx)] = @ \cup {digit}]

\* self.rows.iter().map(|row| row.count_ones() as usize).sum()
empty_cells(rm) ==
    Cardinality(rm.rows[0]) + Cardinality(rm.rows[1]) + Cardinality(rm.rows[2])
        + Cardinality(rm.rows[3]) + Cardinality(rm.rows[4]) + Cardinality(rm.rows[5])
        + Cardinality(rm.rows[6]) + Cardinality(rm.rows[7]) + Cardinality(rm.rows[8])

is_empty(rm, idx) == rm.sudoku[idx] = 0

candidates(rm, idx) ==
    IF rm.sudoku[idx] # 0 THEN {rm.sudoku[idx]}
    ELSE rm.rows[ROW_INDICES(idx)] \cap rm.cols[COL_INDICES(idx)]
            \cap rm.boxes[BOX_INDICES(idx)]

-----------------------------------------------------------------------------
(* Template (template.rs) and TemplateGeneratorState (generate.rs).        *)
(* A TemplateDigit is [t, ds]: "Empty", "Given" with ds = <<d>>, or        *)
(* "Wildcard" with ds the Vec of its digits.                               *)

Empty == [t |-> "Empty", ds |-> <<>>]
Given(d) == [t |-> "Given", ds |-> <<d>>]
Wildcard(ds) == [t |-> "Wildcard", ds |-> ds]

\* for_template's filter_map: a template cell to its (idx, mask) entry
wildcard_entry(idx, digit) ==
    CASE digit.t = "Empty" -> <<>>
      [] digit.t = "Given" -> <<<<idx, {digit.ds[1]}>>>>
      [] digit.t = "Wildcard" -> <<<<idx, Range(digit.ds)>>>>

\* The entries of the cells from idx on, in index order
directed_cells(template, idx) ==
    SelectSeq([k \in 1..(81 - idx) |-> idx + k - 1], LAMBDA i : template[i].t # "Empty")

collect_entries(template, cells) ==
    [k \in 1..Len(cells) |-> wildcard_entry(cells[k], template[cells[k]])[1]]

collect_wildcards(template, idx) == collect_entries(template, directed_cells(template, idx))

for_template(template) ==
    [kind |-> "template",
     wildcards |-> collect_wildcards(template, 0),
     placement_count |-> 0,
     sudoku |-> RegionMaskedSudoku_empty]

\* Iterator::min_by_key over (idx, bits) pairs: the first of the smallest
first_of_len(all, len) ==
    all[Min({i \in 1..Len(all) : Cardinality(all[i][2]) = len})]

\* min_by_len keeping the last of the smallest
min_by_len_last(best, rest) ==
    (<<best>> \o rest)[Max({i \in 1..(Len(rest) + 1) :
        \A j \in 1..(Len(rest) + 1) :
            Cardinality((<<best>> \o rest)[i][2]) <= Cardinality((<<best>> \o rest)[j][2])})]

min_by_len(best, rest) ==
    first_of_len(<<best>> \o rest,
                 Min({Cardinality(w[2]) : w \in Range(<<best>> \o rest)}))

best_branch_digit(st) ==
    LET open == SelectSeq(st.wildcards, LAMBDA w : is_empty(st.sudoku, w[1]))
        live == [i \in 1..Len(open) |->
                    <<open[i][1], open[i][2] \cap candidates(st.sudoku, open[i][1])>>]
    IN  IF live = <<>> THEN <<>> ELSE <<min_by_len(Head(live), Tail(live))>>

Template_next_steps(st) ==
    LET b == best_branch_digit(st) IN
    IF b # <<>>
    THEN LET digits == SetToSeq(b[1][2])
         IN  [i \in 1..Len(digits) |-> <<b[1][1], digits[i]>>]
    ELSE <<>>

Template_apply_step(st, s) ==
    [st EXCEPT !.sudoku = place(@, s[1], s[2]),
               !.placement_count = @ + 1]

Template_revert_step(st, s) ==
    [st EXCEPT !.sudoku = unplace(@, s[1], s[2]),
               !.placement_count = @ - 1]

Template_should_prune(st) == FALSE

Template_output(st) ==
    IF st.placement_count = Len(st.wildcards) THEN <<st.sudoku>> ELSE <<>>

-----------------------------------------------------------------------------
(* DihedralSubgroup::orbits: the orbit of every cell under a subgroup of   *)
(* the symmetries of the square acting on (row, column).                   *)

Act(g, cell) ==
    LET r == cell \div 9
        c == cell % 9
    IN  CASE g = "id"   -> cell
          [] g = "r90"  -> 9 * c + (8 - r)
          [] g = "r180" -> 9 * (8 - r) + (8 - c)
          [] g = "r270" -> 9 * (8 - c) + r
          [] g = "fh"   -> 9 * r + (8 - c)
          [] g = "fv"   -> 9 * (8 - r) + c
          [] g = "d"    -> 9 * c + r
          [] g = "ad"   -> 9 * (8 - c) + (8 - r)

DihedralSubgroup(symmetry) ==
    CASE symmetry = "Identity"    -> {"id"}
      [] symmetry = "HalfTurn"    -> {"id", "r180"}
      [] symmetry = "QuarterTurn" -> {"id", "r90", "r180", "r270"}
      [] symmetry = "Diagonal"    -> {"id", "d"}

Symmetries == {"Identity", "HalfTurn", "QuarterTurn", "Diagonal"}

OrbitTable ==
    [symmetry \in Symmetries |->
        [cell \in Cells |-> {Act(g, cell) : g \in DihedralSubgroup(symmetry)}]]

orbits(symmetry) == OrbitTable[symmetry]

-----------------------------------------------------------------------------
(* PlusNSearchState (expansion.rs). The orbits field is held as the        *)
(* symmetry it was computed from.                                          *)

AddCell(cell) == [t |-> "AddCell", cell |-> cell, d |-> 0]
PlaceDigit(cell, d) == [t |-> "PlaceDigit", cell |-> cell, d |-> d]

\* for_sudoku_and_symmetry without the cells the clues of the input require
for_sudoku_and_symmetry_nothing_required(n, sudoku, symmetry, excluded_cells) ==
    LET orb == orbits(symmetry)
        clue_cells == {idx \in Cells : ~is_empty(sudoku, idx)}
        representatives == {idx \in Cells : Min(orb[idx]) = idx}
        removed == UNION {orb[idx] :
                     idx \in {9 * e[1] + e[2] : e \in excluded_cells} \cup clue_cells}
    IN  [kind |-> "plusn", sudoku |-> sudoku, symmetry |-> symmetry,
         allowed_cells |-> representatives \ removed,
         required_cells |-> {}, pending_placement |-> <<>>,
         placed_cells |-> {}, placements_remaining |-> n]

for_sudoku_and_symmetry(n, sudoku, symmetry, excluded_cells) ==
    LET orb == orbits(symmetry)
        clue_cells == {idx \in Cells : ~is_empty(sudoku, idx)}
        required_cells == UNION {orb[cell] : cell \in clue_cells} \ clue_cells
        representatives == {idx \in Cells : Min(orb[idx]) = idx}
        removed == UNION {orb[idx] :
                     idx \in {9 * e[1] + e[2] : e \in excluded_cells} \cup clue_cells}
    IN  [kind |-> "plusn", sudoku |-> sudoku, symmetry |-> symmetry,
         allowed_cells |-> representatives \ removed,
         required_cells |-> required_cells, pending_placement |-> <<>>,
         placed_cells |-> {}, placements_remaining |-> n]

PlusN_next_steps(st) ==
    IF st.pending_placement # <<>>
    THEN LET idx == st.pending_placement[1]
             digits == SetToSeq(candidates(st.sudoku, idx))
         IN  [i \in 1..Len(digits) |-> PlaceDigit(idx, digits[i])]
    ELSE IF st.required_cells # {}
    THEN <<AddCell(Min(st.required_cells))>>
    ELSE LET start == IF st.placed_cells = {} THEN 0 ELSE Max(st.placed_cells) + 1 IN
         IF start \in 0..80
         THEN LET candidate_cells == SetToSeq({c \in st.allowed_cells : c >= start})
              IN  [i \in 1..Len(candidate_cells) |-> AddCell(candidate_cells[i])]
         ELSE <<>>

PlusN_apply_step(st, s) ==
    IF s.t = "AddCell"
    THEN LET opened == st.required_cells = {}
             required == IF opened THEN orbits(st.symmetry)[s.cell]
                         ELSE st.required_cells
         IN  [st EXCEPT !.required_cells = required \ {s.cell},
                        !.placed_cells = IF opened THEN @ \cup {s.cell} ELSE @,
                        !.pending_placement = <<s.cell>>,
                        !.placements_remaining = @ - 1]
    ELSE [st EXCEPT !.sudoku = place(@, s.cell, s.d),
                    !.pending_placement = <<>>]

\* revert_step that leaves the placed digit in the grid
PlusN_revert_step_digit_kept(st, s) ==
    IF s.t = "PlaceDigit"
    THEN [st EXCEPT !.pending_placement = <<s.cell>>]
    ELSE LET required == st.required_cells \cup {s.cell} IN
         [st EXCEPT !.placed_cells = @ \ {s.cell},
                    !.required_cells = IF required = orbits(st.symmetry)[s.cell]
                                       THEN {} ELSE required,
                    !.pending_placement = <<>>,
                    !.placements_remaining = @ + 1]

\* revert_step of AddCell that never empties required_cells
PlusN_revert_step_orbit_left(st, s) ==
    IF s.t = "PlaceDigit"
    THEN [st EXCEPT !.sudoku = unplace(@, s.cell, s.d),
                    !.pending_placement = <<s.cell>>]
    ELSE [st EXCEPT !.placed_cells = @ \ {s.cell},
                    !.required_cells = @ \cup {s.cell},
                    !.pending_placement = <<>>,
                    !.placements_remaining = @ + 1]

PlusN_revert_step(st, s) ==
    IF s.t = "PlaceDigit"
    THEN [st EXCEPT !.sudoku = unplace(@, s.cell, s.d),
                    !.pending_placement = <<s.cell>>]
    ELSE LET required == st.required_cells \cup {s.cell} IN
         [st EXCEPT !.placed_cells = @ \ {s.cell},
                    !.required_cells = IF required = orbits(st.symmetry)[s.cell]
                                       THEN {} ELSE required,
                    !.pending_placement = <<>>,
                    !.placements_remaining = @ + 1]

\* should_prune that only compares required_cells with placements_remaining
PlusN_should_prune_required_only(st) ==
    Cardinality(st.required_cells) > st.placements_remaining

PlusN_should_prune(st) ==
    \/ Cardinality(st.required_cells) > st.placements_remaining
    \/ (st.pending_placement = <<>> /\ st.placements_remaining = 0)

PlusN_output(st) ==
    IF st.required_cells = {} /\ st.pending_placement = <<>>
    THEN <<st.sudoku>> ELSE <<>>

-----------------------------------------------------------------------------
(* An abstract DepthFirstTraversable: a finite tree revealed node by node. *)
(* The state is the path of applied steps and, for every node on the path  *)
(* (the root first), what should_prune(), next_steps() and output() answer *)
(* there.                                                                  *)

\* next_steps() is not called at a node that should_prune() cuts, so such a
\* node is given no steps.
NodeAttrs(depth) ==
    {a \in [prune : BOOLEAN, out : BOOLEAN,
            n : IF depth >= MaxDepth THEN {0} ELSE 0..MaxBranch] :
        a.prune => a.n = 0}

\* The nodes of a tree whose cut nodes keep the steps next_steps() would
\* give if it were called there
PrunableAttrs(depth) ==
    [prune : BOOLEAN, out : BOOLEAN,
     n : IF depth >= MaxDepth THEN {0} ELSE 0..MaxBranch]

TreeRoot(a) == [kind |-> "tree", path |-> <<>>, attrs |-> <<a>>, broken |-> FALSE]

Tree_next_steps(st) == [i \in 1..Last(st.attrs).n |-> i]

Tree_apply_step(st, s, a) ==
    [st EXCEPT !.path = Append(@, s), !.attrs = Append(@, a)]

Tree_revert_step(st, s) ==
    IF st.path # <<>> /\ Last(st.path) = s
    THEN [st EXCEPT !.path = Front(@), !.attrs = Front(@)]
    ELSE [st EXCEPT !.broken = TRUE]

Tree_should_prune(st) == Last(st.attrs).prune

Tree_output(st) == IF Last(st.attrs).out THEN <<st.path>> ELSE <<>>

-----------------------------------------------------------------------------
(* The DepthFirstTraversable trait: each call goes to the implementation   *)
(* the state belongs to.                                                   *)

next_steps(st) ==
    CASE st.kind = "tree" -> Tree_next_steps(st)
      [] st.kind = "template" -> Template_next_steps(st)
      [] st.kind = "plusn" -> PlusN_next_steps(st)

apply_step(st, s, a) ==
    CASE st.kind = "tree" -> Tree_apply_step(st, s, a)
      [] st.kind = "template" -> Template_apply_step(st, s)
      [] st.kind = "plusn" -> PlusN_apply_step(st, s)

revert_step(st, s) ==
    CASE st.kind = "tree" -> Tree_revert_step(st, s)
      [] st.kind = "template" -> Template_revert_step(st, s)
      [] st.kind = "plusn" -> PlusN_revert_step(st, s)

should_prune(st) ==
    CASE st.kind = "tree" -> Tree_should_prune(st)
      [] st.kind = "template" -> Template_should_prune(st)
      [] st.kind = "plusn" -> PlusN_should_prune(st)

output(st) ==
    CASE st.kind = "tree" -> Tree_output(st)
      [] st.kind = "template" -> Template_output(st)
      [] st.kind = "plusn" -> PlusN_output(st)

-----------------------------------------------------------------------------
(* DepthFirstSearcherWithProgress                                          *)

\* A frame of levels: (steps, last applied step, progress increment)
Frame(steps, prev, inc) == [steps |-> steps, prev |-> prev, inc |-> inc]

progress_increment(lv) == IF lv = <<>> THEN RatOne ELSE Last(lv).inc

\* steps_next taking the steps from the far end
steps_next_from_back(steps) == [item |-> Last(steps), rest |-> Front(steps)]

\* Iterator::next on a frame's step iterator: the item and the rest
steps_next(steps) == [item |-> Head(steps), rest |-> Tail(steps)]

\* The first loop of step(): pop the frames whose steps are used up. The
\* frames popped are those after the last frame that has steps left;
\* the step each of them applied last is reverted, the deepest first.
TraversableKinds == {"tree", "template", "plusn"}

first_exhausted(lv) == Max({0} \cup {i \in 1..Len(lv) : Len(lv[i].steps) # 0}) + 1

RECURSIVE revert_popped(_, _, _, _)
revert_popped(st, lv, lo, hi) ==
    IF st.kind \notin TraversableKinds \/ lo > hi THEN st
    ELSE IF lo = hi
    THEN IF lv[lo].prev # <<>> THEN revert_step(st, lv[lo].prev[1]) ELSE st
    ELSE revert_popped(revert_popped(st, lv, ((lo + hi) \div 2) + 1, hi),
                       lv, lo, (lo + hi) \div 2)

pop_explored(st, lv) ==
    [state |-> revert_popped(st, lv, first_exhausted(lv), Len(lv)),
     levels |-> SubSeq(lv, 1, first_exhausted(lv) - 1),
     finished |-> lv # <<>> /\ first_exhausted(lv) = 1]

\* advance leaving the step the frame applied before in place
advance_unreverted(st, lv, a) ==
    IF lv = <<>> THEN [state |-> st, levels |-> lv]
    ELSE LET top == Last(lv)
             nx  == steps_next(top.steps)
         IN  [state  |-> apply_step(st, nx.item, a),
              levels |-> Append(Front(lv), Frame(nx.rest, <<nx.item>>, top.inc))]

\* The second block of step(): advance the deepest level by one step.
advance(st, lv, a) ==
    IF lv = <<>> THEN [state |-> st, levels |-> lv]
    ELSE LET top == Last(lv)
             st1 == IF top.prev # <<>> THEN revert_step(st, top.prev[1]) ELSE st
             nx  == steps_next(top.steps)
         IN  [state  |-> apply_step(st1, nx.item, a),
              levels |-> Append(Front(lv), Frame(nx.rest, <<nx.item>>, top.inc))]

\* The deepening of step(): a frame for the steps of the node, or the
\* node's weight added to progress when it has none.
push_steps(st, lv, pr, ns) ==
    IF Len(ns) > 0
    THEN [state |-> st,
          levels |-> Append(lv, Frame(ns, <<>>,
                            RatDivInt(progress_increment(lv), Len(ns)))),
          progress |-> pr]
    ELSE [state |-> st, levels |-> lv,
          progress |-> RatAdd(pr, progress_increment(lv))]

\* deepen giving a pruned node no progress
deepen_prune_uncounted(st, lv, pr) ==
    IF should_prune(st)
    THEN [state |-> st, levels |-> lv, progress |-> pr]
    ELSE push_steps(st, lv, pr, next_steps(st))

\* deepen asking for the steps of a node before the prune check
deepen_steps_first(st, lv, pr) ==
    IF should_prune(st) /\ Len(next_steps(st)) = 0
    THEN [state |-> st, levels |-> lv, progress |-> RatAdd(pr, progress_increment(lv))]
    ELSE push_steps(st, lv, pr, next_steps(st))

\* The prune check and the deepening of step().
deepen(st, lv, pr) ==
    IF should_prune(st)
    THEN [state |-> st, levels |-> lv, progress |-> RatAdd(pr, progress_increment(lv))]
    ELSE push_steps(st, lv, pr, next_steps(st))

\* What the node reached by the next apply_step may answer: a choice for the
\* abstract tree (the node lies one level below the frame that is advanced),
\* nothing to choose when no step is applied or for the concrete
\* traversables.
Arrivals(st, lv) ==
    LET p == pop_explored(st, lv) IN
    IF st.kind = "tree" /\ ~p.finished /\ p.levels # <<>>
    THEN IF input.kind = "prunable" THEN PrunableAttrs(Len(p.levels))
         ELSE NodeAttrs(Len(p.levels))
    ELSE {<<>>}

\* step(): the new searcher and whether the search is still alive.
step_alive(d) ==
    [state |-> d.state, levels |-> d.levels, progress |-> d.progress,
     alive |-> TRUE]

step_deepen(ad, pr) == step_alive(deepen(ad.state, ad.levels, pr))

step_popped(p, pr, a) ==
    IF p.finished
    THEN [state |-> p.state, levels |-> p.levels, progress |-> pr, alive |-> FALSE]
    ELSE step_deepen(advance(p.state, p.levels, a), pr)

step(st, lv, pr, a) == step_popped(pop_explored(st, lv), pr, a)

\* The consumer of a template generator keeps the grids it receives, as they
\* are when it receives them, and so does the consumer of an expansion that
\* is asked to (input.keep); of the other searches only the last item is
\* kept.
Received(st, o) ==
    IF st.kind = "template" \/ (st.kind = "plusn" /\ input.keep)
    THEN Append(emitted, o.sudoku) ELSE emitted

\* One iteration of the loop of next(): a step(), then the look at output().
\* next() returns Some (ret = "some"), loops on (ret = "cont") or returns
\* None (ret = "none").
\* One iteration of the loop of next() after step() gave r and, when the
\* search is alive, output() gave o.
next_output(r, o) ==
    /\ pc' = "run"
    /\ IF o # <<>>
       THEN /\ ret' = "some"
            /\ last' = <<[progress |-> r.progress,
                          scale |-> progress_increment(r.levels),
                          value |-> o[1]]>>
            /\ emitted' = Received(r.state, o[1])
       ELSE /\ ret' = "cont" /\ last' = <<>> /\ emitted' = emitted

next_stepped(r) ==
    /\ state' = r.state
    /\ levels' = r.levels
    /\ progress' = r.progress
    /\ calls' = calls + 1
    /\ IF ~r.alive
       THEN /\ pc' = "done" /\ ret' = "none" /\ last' = <<>>
            /\ emitted' = emitted
       ELSE next_output(r, output(r.state))

NextIteration ==
    /\ pc = "run"
    /\ RatLeq(progress, <<MaxProgress, 1>>)
    /\ \E a \in Arrivals(state, levels) :
         next_stepped(step(state, levels, progress, a))
    /\ UNCHANGED <<input, verdict>>

-----------------------------------------------------------------------------
(* The searcher over an abstract tree.                                     *)

InitTree ==
    /\ \E a \in NodeAttrs(0) : state = TreeRoot(a)
    /\ levels = <<>>
    /\ progress = RatZero
    /\ pc = "run"
    /\ ret = "start"
    /\ last = <<>>
    /\ emitted = <<>>
    /\ calls = 0
    /\ input = [kind |-> "tree"]
    /\ verdict = <<>>

NextTree == NextIteration

SpecTree == InitTree /\ [][NextTree]_vars

\* The steps applied and not reverted according to the frames: the step each
\* frame applied last, from the bottom frame to the top one
AppliedSteps(lv) ==
    [k \in 1..Cardinality({i \in 1..Len(lv) : lv[i].prev # <<>>}) |->
        lv[Min({i \in 1..Len(lv) :
                  Cardinality({j \in 1..i : lv[j].prev # <<>>}) = k})].prev[1]]

\* C22: every revert_step is of the step applied most recently and not yet
\* reverted; between the calls of step() the steps applied and not reverted
\* are the last applied steps of the frames, bottom to top; when next()
\* returned None no applied step is left.
C22_RevertIsLifo ==
    state.kind = "tree" =>
        /\ ~state.broken
        /\ state.path = AppliedSteps(levels)
        /\ (pc = "done" => state.path = <<>>)

\* C22 witness: two frames deep, the second sibling is applied after the
\* first was reverted.
C22_Witness ==
    /\ state.kind = "tree" /\ ~state.broken
    /\ Len(levels) >= 2 /\ state.path = <<1, 2>>

\* The searcher driven on for as long as next() may be called: the consumer's
\* loop calls next() again until it returns None.
\* A call of next() counted: the consumer can make one whenever the search
\* has not ended
NextCalled ==
    pc = "run" /\ RatLeq(progress, <<MaxProgress, 1>>) /\ calls' = calls + 1

FairTree == InitTree /\ [][NextTree]_vars /\ WF_calls(NextCalled)

FramelessGoesOn ==
    (state.kind = "tree" /\ pc = "run" /\ calls > 0 /\ levels = <<>>) =>
        \A a \in Arrivals(state, levels) :
            LET r == step(state, levels, progress, a)
            IN  r.alive /\ r.levels = <<>> /\ r.state = state

\* next() called again after it returned None: the same loop of step() and
\* output(), on the searcher as the ended search left it.
after_none_output(r, o) ==
    IF o # <<>>
    THEN /\ ret' = "some"
         /\ last' = <<[progress |-> r.progress,
                       scale |-> progress_increment(r.levels),
                       value |-> o[1]]>>
    ELSE /\ ret' = "cont" /\ last' = <<>>

after_none_stepped(r) ==
    /\ state' = r.state
    /\ levels' = r.levels
    /\ progress' = r.progress
    /\ calls' = calls + 1
    /\ pc' = "again"
    /\ emitted' = emitted
    /\ IF ~r.alive
       THEN ret' = "none" /\ last' = <<>>
       ELSE after_none_output(r, output(r.state))

NextAfterNone ==
    /\ pc \in {"done", "again"}
    /\ RatLeq(progress, <<MaxProgress, 1>>)
    /\ \E a \in Arrivals(state, levels) :
         after_none_stepped(step(state, levels, progress, a))
    /\ UNCHANGED <<input, verdict>>

NextAgain == NextIteration \/ NextAfterNone

SpecAgain == InitTree /\ [][NextAgain]_vars

\* C25: once next() has returned None, every later call returns None and
\* changes neither the traversable's state nor progress.
C25_NoneStaysNone ==
    [][(pc \in {"done", "again"} /\ calls' = calls + 1) =>
          (ret' = "none" /\ state' = state /\ progress' = progress)]_vars

\* The searcher over a tree whose cut nodes have steps below them.
InitPruned ==
    /\ \E a \in PrunableAttrs(0) : state = TreeRoot(a)
    /\ levels = <<>>
    /\ progress = RatZero
    /\ pc = "run"
    /\ ret = "start"
    /\ last = <<>>
    /\ emitted = <<>>
    /\ calls = 0
    /\ input = [kind |-> "prunable"]
    /\ verdict = <<>>

NextPruned == NextIteration

SpecPruned == InitPruned /\ [][NextPruned]_vars

\* The node a call of step() reached ends a branch: it is cut or has no steps
EndsBranch(st) == Tree_should_prune(st) \/ Len(Tree_next_steps(st)) = 0

\* C23: a call of step() changes progress only when the node it reached is
\* cut or has no steps, and then by the weight of the top frame (1 at the
\* root); a node with steps adds nothing, whether it yields an output or not;
\* a cut node gets no frame, and no step is ever applied below one.
C23_ProgressAtBranchEnds ==
    [][(state.kind = "tree" /\ calls' = calls + 1) =>
          /\ progress' = IF ret' # "none" /\ EndsBranch(state')
                          THEN RatAdd(progress, progress_increment(levels'))
                          ELSE progress
          /\ (ret' # "none" /\ EndsBranch(state')) => Len(levels') = Len(state'.path)
          /\ (ret' # "none" /\ ~EndsBranch(state')) => Len(levels') = Len(state'.path) + 1
          /\ \A i \in 1..(Len(state'.attrs) - 1) : ~state'.attrs[i].prune]_vars

\* C23 witness: a cut node that has steps was reached below a node that
\* yielded an output, and only the cut node's weight is in progress.
C23_Witness ==
    /\ state.kind = "tree" /\ Len(state.path) = 1
    /\ state.attrs[1].out /\ state.attrs[1].n = 2
    /\ state.attrs[2].prune /\ state.attrs[2].n > 0
    /\ state.path = <<1>> /\ progress = <<1, 2>>

\* The node after st in the left-first pre-order of the tree, as an Option:
\* the first child if st has children and is not pruned, else the next
\* sibling of the nearest node on the path that has one.
RECURSIVE TreeNextSibling(_, _)
TreeNextSibling(path, attrs) ==
    IF path = <<>> THEN <<>>
    ELSE IF Last(path) < attrs[Len(path)].n
    THEN <<Append(Front(path), Last(path) + 1)>>
    ELSE TreeNextSibling(Front(path), Front(attrs))

TreePreorderNext(st) ==
    IF ~Last(st.attrs).prune /\ Last(st.attrs).n > 0
    THEN <<Append(st.path, 1)>>
    ELSE TreeNextSibling(st.path, st.attrs)

\* C1: the searcher visits the tree in strict left-first depth-first
\* pre-order: the first step() visits the root, every later step() moves to
\* the pre-order successor of the node it was at (the steps of a frame in the
\* order next_steps() gave them, a step reverted before its sibling is
\* applied, no revert of a step that is not the last applied), the search
\* ends only when no successor is left, and next() yields the output of a
\* node exactly when that node is visited.
C1_PreOrder ==
    [][NextIteration =>
        /\ ~state'.broken
        /\ calls = 0 => (pc' = "run" /\ state'.path = <<>>)
        /\ (calls > 0 /\ TreePreorderNext(state) # <<>>) =>
              (pc' = "run" /\ state'.path = TreePreorderNext(state)[1])
        /\ (calls > 0 /\ TreePreorderNext(state) = <<>> /\ state.path # <<>>) =>
              (pc' = "done" /\ state'.path = <<>>)
        /\ pc' = "run" =>
              /\ (ret' = "some") = Last(state'.attrs).out
              /\ ret' = "some" => last'[1].value = state'.path
    ]_vars

\* C1 witness: the second child of the second child of the root is visited
\* and yielded, after the subtree of the first child.
C1_Witness ==
    state.kind = "tree" /\ state.path = <<2, 2>> /\ ret = "some" /\ ~state.broken

\* C2: progress never decreases from one step() to the next and never
\* exceeds 1, whatever the tree (also when the root has no steps).
C2_ProgressMonotoneAtMostOne ==
    [][RatLeq(progress, progress') /\ RatLeq(progress', RatOne)]_vars

-----------------------------------------------------------------------------
(* The template generator: GenerationBase::iter over a Template.           *)

\* The cells the checked templates give a directive to: 0 and 4 share a
\* row, 0 and 9 a column and a box, 4 and 9 nothing.
TemplateCells == <<0, 4, 9>>

Directives ==
    {Empty} \cup {Given(d) : d \in 1..MaxDigit}
            \cup {Wildcard(SetToSeq(S)) : S \in SUBSET (1..MaxDigit)}

SmallTemplate(ch) ==
    [i \in Cells |->
        IF \E k \in 1..Len(TemplateCells) : TemplateCells[k] = i
        THEN ch[CHOOSE k \in 1..Len(TemplateCells) : TemplateCells[k] = i]
        ELSE Empty]

\* "123456789" followed by 72 empty cells
RowOneTemplate == [i \in Cells |-> IF i < 9 THEN Given(i + 1) ELSE Empty]

Templates ==
    {SmallTemplate(ch) : ch \in [1..Len(TemplateCells) -> Directives]}
        \cup {RowOneTemplate}

InitTemplate ==
    /\ \E tpl \in Templates :
         /\ input = [kind |-> "template", template |-> tpl]
         /\ state = for_template(tpl)
    /\ levels = <<>>
    /\ progress = RatZero
    /\ pc = "run"
    /\ ret = "start"
    /\ last = <<>>
    /\ emitted = <<>>
    /\ calls = 0
    /\ verdict = <<>>

NextTemplate == NextIteration

SpecTemplate == InitTemplate /\ [][NextTemplate]_vars

\* The template cells without a digit yet, and the digits a template cell
\* can still take: those of its directive that its row, column and box masks
\* all hold
Unplaced(template, rm) == {i \in Cells : template[i].t # "Empty" /\ rm.sudoku[i] = 0}

LiveDigits(template, rm, i) ==
    {d \in Range(template[i].ds) :
        d \in rm.rows[i \div 9] /\ d \in rm.cols[i % 9]
            /\ d \in rm.boxes[3 * (i \div 27) + ((i % 9) \div 3)]}

FewestLive(template, rm) ==
    {i \in Unplaced(template, rm) :
        \A j \in Unplaced(template, rm) :
            Cardinality(LiveDigits(template, rm, i)) <= Cardinality(LiveDigits(template, rm, j))}

BranchCell(template, rm) == Min(FewestLive(template, rm))

\* next_steps gives (cell, d) for the digits d of live in ascending order
StepsOver(steps, cell, live) ==
    /\ Len(steps) = Cardinality(live)
    /\ \A k \in 1..Len(steps) : steps[k][1] = cell /\ steps[k][2] \in live
    /\ \A k \in 1..(Len(steps) - 1) : steps[k][2] < steps[k + 1][2]

\* C26: the node branches on the unplaced template cell with the fewest live
\* digits, the lowest index among equals, one step per live digit in
\* ascending order; a branch cell without a live digit leaves a node without
\* steps and without output; without an unplaced template cell the node has
\* no steps.
C26_BranchOnFewestLive ==
    state.kind = "template" =>
        IF Unplaced(input.template, state.sudoku) = {}
        THEN Template_next_steps(state) = <<>>
        ELSE /\ StepsOver(Template_next_steps(state),
                          BranchCell(input.template, state.sudoku),
                          LiveDigits(input.template, state.sudoku,
                                     BranchCell(input.template, state.sudoku)))
             /\ Template_output(state) = <<>>

\* C26 witness: cell 4 was branched on before cell 9, both with two live
\* digits, and cell 0, left with two live digits as cell 9, comes next.
C26_Witness ==
    /\ state.kind = "template"
    /\ input.template[0] = Wildcard(<<1, 2, 3>>)
    /\ input.template[4] = Wildcard(<<1, 2>>)
    /\ input.template[9] = Wildcard(<<2, 3>>)
    /\ state.sudoku.sudoku[4] = 2
    /\ state.sudoku.sudoku[9] = 0 /\ state.sudoku.sudoku[0] = 0
    /\ Template_next_steps(state) = <<<<0, 1>>, <<0, 3>>>>

Peer(i, j) ==
    /\ i # j
    /\ \/ ROW_INDICES(i) = ROW_INDICES(j)
       \/ COL_INDICES(i) = COL_INDICES(j)
       \/ BOX_INDICES(i) = BOX_INDICES(j)

NoPeerConflict(g) ==
    LET filled == {i \in Cells : g[i] # 0}
    IN  \A i, j \in filled : Peer(i, j) => g[i] # g[j]

Fits(tpl, g) ==
    \A i \in Cells :
        CASE tpl[i].t = "Empty" -> g[i] = 0
          [] tpl[i].t = "Given" -> g[i] = tpl[i].ds[1]
          [] tpl[i].t = "Wildcard" -> g[i] \in Range(tpl[i].ds)

HasDirective(tpl) == \E i \in Cells : tpl[i].t # "Empty"

\* Every grid that fits the template, built cell by cell in index order.
RECURSIVE FittingFrom(_, _, _)
FittingFrom(g, i, tpl) ==
    IF i > 80 THEN {g}
    ELSE IF tpl[i].t = "Empty" THEN FittingFrom(g, i + 1, tpl)
    ELSE UNION {FittingFrom([g EXCEPT ![i] = d], i + 1, tpl) :
                  d \in {e \in Range(tpl[i].ds) :
                            \A j \in Cells : (Peer(i, j) /\ j < i) => g[j] # e}}

FittingGrids(tpl) == FittingFrom(Sudoku_empty, 0, tpl)

NoRepeat(seq) == \A i, j \in 1..Len(seq) : i # j => seq[i] # seq[j]

\* C4: every grid the template generator emits fits the template (Givens
\* hold their digit, wildcards a digit of their set, Empty cells 0) and has
\* no two peer cells with the same digit.
C4_EmittedFitsTemplate ==
    (input.kind = "template" /\ emitted # <<>>) =>
        /\ Fits(input.template, Last(emitted))
        /\ NoPeerConflict(Last(emitted))

\* C4 witness: a grid was emitted for a template with three directives, two
\* of them wildcards with more than one digit on peer cells.
C4_Witness ==
    /\ input.kind = "template"
    /\ emitted # <<>>
    /\ input.template[0].t = "Wildcard" /\ Len(input.template[0].ds) >= 2
    /\ input.template[9].t = "Wildcard" /\ Len(input.template[9].ds) >= 2
    /\ input.template[4].t = "Given"
    /\ Last(emitted)[0] # 0 /\ Last(emitted)[9] # 0 /\ Last(emitted)[4] # 0

\* A bound on the step() calls of a search whose tree has at most one level
\* per directive and at most one branch per digit of a directive.
RECURSIVE BranchProduct(_, _)
BranchProduct(tpl, i) ==
    IF i > 80 THEN 1
    ELSE (IF Len(tpl[i].ds) > 1 THEN Len(tpl[i].ds) ELSE 1) * BranchProduct(tpl, i + 1)

StepBound(tpl) ==
    2 + Cardinality({i \in Cells : tpl[i].t # "Empty"}) * BranchProduct(tpl, 0)

\* C5: for a template with at least one Given or Wildcard cell the generator
\* emits every fitting grid exactly once and then ends: no grid is emitted
\* twice, next() returns None before StepBound calls of step() were made,
\* and the grids emitted by then are exactly the fitting grids; the template
\* with row one given yields exactly that row on an empty grid.
C5_AllFittingOnceThenEnd ==
    (input.kind = "template" /\ HasDirective(input.template)) =>
        /\ NoRepeat(emitted)
        /\ pc = "run" => calls < StepBound(input.template)
        /\ pc = "done" =>
             /\ Range(emitted) = FittingGrids(input.template)
             /\ input.template = RowOneTemplate =>
                  emitted = <<[i \in Cells |-> IF i < 9 THEN i + 1 ELSE 0]>>

\* C6: for the template of 81 Empty cells the generator emits exactly one
\* grid, the all-zero grid, and then ends.
C6_AllEmptyEmitsOne ==
    (input.kind = "template" /\ ~HasDirective(input.template)) =>
        /\ Len(emitted) <= 1
        /\ emitted # <<>> => emitted[1] = Sudoku_empty

-----------------------------------------------------------------------------
(* The PlusN expansion: Expansion::expand over an input grid.              *)

\* The cells the checked expansions may fill; every other cell is excluded.
\* The set is closed under the half turn and under the diagonal reflection.
FreeCells == {0, 1, 9, 71, 79, 80}

ExcludedCells == {<<c \div 9, c % 9>> : c \in Cells \ FreeCells}

\* The clues an input grid may hold, as <<cell, digit>>
InputClues == {<<0, 1>>, <<9, 2>>, <<80, 1>>}

RECURSIVE PlaceAll(_, _)
PlaceAll(rm, clues) ==
    IF clues = {} THEN rm
    ELSE LET c == CHOOSE x \in clues : TRUE
         IN  PlaceAll(place(rm, c[1], c[2]), clues \ {c})

ExpansionOf(keep) ==
    /\ \E n \in 0..MaxN, symmetry \in Symmetries, clues \in SUBSET InputClues :
         LET sudoku == PlaceAll(RegionMaskedSudoku_empty, clues) IN
         /\ input = [kind |-> "plusn", n |-> n, symmetry |-> symmetry,
                     sudoku |-> sudoku.sudoku, excluded_cells |-> ExcludedCells,
                     keep |-> keep]
         /\ state = for_sudoku_and_symmetry(n, sudoku, symmetry, ExcludedCells)
    /\ levels = <<>>
    /\ progress = RatZero
    /\ pc = "run"
    /\ ret = "start"
    /\ last = <<>>
    /\ emitted = <<>>
    /\ calls = 0
    /\ verdict = <<>>

InitPlusN == ExpansionOf(FALSE)

NextPlusN == NextIteration

SpecPlusN == InitPlusN /\ [][NextPlusN]_vars

AddedClues(before, after) ==
    Cardinality({i \in Cells : after[i] # 0 /\ before[i] = 0})

\* C7: every grid a PlusN expansion emits has exactly n more clue cells than
\* the input grid.
C7_ExactlyNAdded ==
    (input.kind = "plusn" /\ ret = "some") =>
        AddedClues(input.sudoku, last[1].value.sudoku) = input.n

\* C8: in every grid a PlusN expansion emits the clue cells are closed under
\* the symmetry group: with a clue cell, every cell of its orbit is a clue,
\* also for the clues the input grid held.
C8_CluesClosedUnderSymmetry ==
    (input.kind = "plusn" /\ ret = "some") =>
        LET g == last[1].value.sudoku IN
        \A i \in Cells : g[i] # 0 =>
            \A j \in orbits(input.symmetry)[i] : g[j] # 0

\* C8 witness: under the half turn, an input with a clue at cell 0 and none
\* at its orbit mate 80 led to an emitted grid with a clue at 80.
C8_Witness ==
    /\ input.kind = "plusn" /\ ret = "some"
    /\ input.symmetry = "HalfTurn"
    /\ input.sudoku[0] # 0 /\ input.sudoku[80] = 0
    /\ last[1].value.sudoku[80] # 0

\* The expansions whose consumer keeps every grid it receives
InitKept == ExpansionOf(TRUE)

NextKept == NextIteration

SpecKept == InitKept /\ [][NextKept]_vars

\* The cells of the AddCell steps applied on the current path, in order
AddedCells(lv) ==
    LET adds == SelectSeq(AppliedSteps(lv), LAMBDA s : s.t = "AddCell")
    IN  [i \in 1..Len(adds) |-> adds[i].cell]

\* A cell whose AddCell opens an orbit: no cell of its orbit is an input clue
OpensOrbit(cell) == \A c \in orbits(input.symmetry)[cell] : input.sudoku[c] = 0

StrictlyAscending(seq) == \A i, j \in 1..Len(seq) : i < j => seq[i] < seq[j]

\* The cells of the steps of a frame, or their digits: the step applied
\* last, then the steps still to come
FrameOrder(frame) ==
    [i \in 1..(Len(frame.prev) + Len(frame.steps)) |->
        LET s == IF i <= Len(frame.prev) THEN frame.prev[i]
                 ELSE frame.steps[i - Len(frame.prev)]
        IN  IF s.t = "AddCell" THEN s.cell ELSE s.d]

\* The orbits opened on a path are opened at strictly increasing cells, and
\* an opened orbit is added whole, in ascending order of its cells, before
\* the next AddCell of another orbit
OrbitsInOrder(added) ==
    /\ StrictlyAscending(SelectSeq(added, OpensOrbit))
    /\ \A k \in 1..Len(added) :
          (OpensOrbit(added[k]) /\ added[k] = Min(orbits(input.symmetry)[added[k]])) =>
              LET orbit == SetToSeq(orbits(input.symmetry)[added[k]])
              IN  \A t \in 1..Len(orbit) :
                      k + t - 1 <= Len(added) => added[k + t - 1] = orbit[t]
    /\ \A k \in 1..Len(added) :
          OpensOrbit(added[k]) =>
              \E j \in 1..k : /\ added[j] = Min(orbits(input.symmetry)[added[k]])
                               /\ \A i \in j..k :
                                     added[i] \in orbits(input.symmetry)[added[k]]

\* The PlaceDigit steps of a pending cell are its live candidates, and the
\* steps of every frame come in ascending order of cell or digit
StepsInOrder ==
    /\ \A k \in 1..Len(levels) : StrictlyAscending(FrameOrder(levels[k]))
    /\ state.pending_placement # <<>> =>
          {s.d : s \in Range(next_steps(state))}
              = candidates(state.sudoku, state.pending_placement[1])

\* The ordering of a PlusN search, which holds in every state: the part of
\* C35 that is about the steps.
PlusNOrdered ==
    state.kind = "plusn" => OrbitsInOrder(AddedCells(levels)) /\ StepsInOrder

\* C35: orbits are opened at strictly increasing representatives, an opened
\* orbit is added in ascending order before another is opened, PlaceDigit
\* steps are the live candidates in ascending order, and no two grids
\* emitted by one expansion are equal.
C35_OrderedAndDistinct ==
    state.kind = "plusn" =>
        /\ OrbitsInOrder(AddedCells(levels)) /\ StepsInOrder
        /\ \A i, j \in 1..Len(emitted) : emitted[i] = emitted[j] => i = j

\* The steps the search may take next from a state: those next_steps()
\* offers where should_prune() does not cut
OfferedSteps(st) ==
    IF PlusN_should_prune(st) THEN {} ELSE Range(PlusN_next_steps(st))

\* C36: in every state of a PlusN search, apply_step of an offered step
\* followed by revert_step of the same step gives back the state:
\* required_cells, placed_cells, pending_placement, placements_remaining and
\* the grid with its region masks.
C36_ApplyRevertRestores ==
    state.kind = "plusn" =>
        \A s \in OfferedSteps(state) :
            PlusN_revert_step(PlusN_apply_step(state, s), s) = state

\* C36 witness: past the root, the state offers the AddCell of a mate of an
\* orbit the search has opened, and applying and reverting it restores the
\* state; the search has also placed a digit and met the mate of an input
\* clue.
C36_Witness ==
    /\ state.kind = "plusn" /\ levels # <<>>
    /\ state.pending_placement = <<>> /\ state.required_cells # {}
    /\ OpensOrbit(Min(state.required_cells))
    /\ AddCell(Min(state.required_cells)) \in OfferedSteps(state)
    /\ \E c \in Cells : input.sudoku[c] = 0 /\ state.sudoku.sudoku[c] # 0
    /\ PlusN_revert_step(PlusN_apply_step(state, AddCell(Min(state.required_cells))),
                         AddCell(Min(state.required_cells))) = state

\* C37: placements_remaining plus the number of AddCell steps applied on
\* the path is n and placements_remaining is never below 0; an AddCell step
\* is offered only when nothing is pending and a placement remains.
C37_PlacementsAccounted ==
    state.kind = "plusn" =>
        /\ state.placements_remaining + Len(AddedCells(levels)) = input.n
        /\ state.placements_remaining >= 0
        /\ \A s \in OfferedSteps(state) :
              s.t = "AddCell" =>
                  state.pending_placement = <<>> /\ state.placements_remaining >= 1

\* C37 witness: two AddCell steps are applied, no placement remains and
\* the node is cut with nothing pending.
C37_Witness ==
    /\ state.kind = "plusn" /\ input.n = 2
    /\ Len(AddedCells(levels)) = 2
    /\ state.placements_remaining = 0
    /\ state.pending_placement = <<>>
    /\ PlusN_should_prune(state)

\* C38: no emitted grid has a new clue at a cell of excluded_cells.
C38_NoClueAtExcluded ==
    (input.kind = "plusn" /\ ret = "some") =>
        \A e \in input.excluded_cells :
            input.sudoku[9 * e[1] + e[2]] = 0
                => last[1].value.sudoku[9 * e[1] + e[2]] = 0

-----------------------------------------------------------------------------
(* The grid and its masks under the template generator and under a PlusN   *)
(* expansion.                                                              *)

InitMasks == InitTemplate \/ InitPlusN

NextMasks == NextIteration

SpecMasks == InitMasks /\ [][NextMasks]_vars

RowCells(r) == {9 * r + k : k \in 0..8}
ColCells(c) == {9 * k + c : k \in 0..8}
BoxCells(b) == {27 * (b \div 3) + 3 * (b % 3) + 9 * j + k : j \in 0..2, k \in 0..2}

\* {1..9} minus the digits placed in the cells of a region, for every region
Available(sudoku, cells) == (1..9) \ {sudoku[i] : i \in cells}

RegionsAvailable(sudoku) ==
    [rows  |-> [r \in 0..8 |-> Available(sudoku, RowCells(r))] @@ <<>>,
     cols  |-> [c \in 0..8 |-> Available(sudoku, ColCells(c))] @@ <<>>,
     boxes |-> [b \in 0..8 |-> Available(sudoku, BoxCells(b))] @@ <<>>]

\* The digits no cell of the row, column or box of cell i holds
Unseen(avail, i) ==
    avail.rows[i \div 9] \cap avail.cols[i % 9]
        \cap avail.boxes[3 * (i \div 27) + ((i % 9) \div 3)]

MasksAgreeWith(rm, avail) ==
    /\ rm.rows = avail.rows /\ rm.cols = avail.cols /\ rm.boxes = avail.boxes
    /\ \A i \in Cells : rm.sudoku[i] = 0 => candidates(rm, i) = Unseen(avail, i)
    /\ empty_cells(rm) = Cardinality({i \in Cells : rm.sudoku[i] = 0})

MasksAgree(rm) == MasksAgreeWith(rm, RegionsAvailable(rm.sudoku))

\* C28: in every state of the template generator and of a PlusN expansion
\* each row, column and box mask is {1..9} minus the digits placed in the
\* region, candidates of an empty cell is what its three regions leave, and
\* empty_cells() is the number of cells holding 0.
C28_MasksAgree ==
    state.kind \in {"template", "plusn"} => MasksAgree(state.sudoku)

\* C28 witness: an expansion has placed a digit, taken it back and placed
\* the next one in the same cell.
C28_Witness ==
    /\ state.kind = "plusn" /\ levels # <<>>
    /\ Last(levels).prev # <<>>
    /\ Last(levels).prev[1].t = "PlaceDigit"
    /\ state.pending_placement = <<>>
    /\ state.sudoku.sudoku[Last(levels).prev[1].cell] = Last(levels).prev[1].d
    /\ \E e \in 1..(Last(levels).prev[1].d - 1) :
           e \in candidates(unplace(state.sudoku, Last(levels).prev[1].cell,
                                    Last(levels).prev[1].d),
                            Last(levels).prev[1].cell)

-----------------------------------------------------------------------------
(* FastBruteForceSolver (fast_solver.rs). A u32 mask is the set of its set *)
(* bit positions; a table is indexed by the number a mask stands for.      *)

N_DIGITS == 9
N_BANDS == 3
N_SUBBANDS == N_DIGITS * N_BANDS
N_CELLS == 81

BitsOf(n) == {b \in 0..26 : (n \div 2^b) % 2 = 1}

\* The number a mask of the low nine bits stands for; a mask with a higher
\* bit stands for a number beyond every table
Bit(mask, b) == IF b \in mask THEN 2^b ELSE 0
ToInt(mask) ==
    IF mask \subseteq 0..8
    THEN Bit(mask, 0) + Bit(mask, 1) + Bit(mask, 2) + Bit(mask, 3) + Bit(mask, 4)
           + Bit(mask, 5) + Bit(mask, 6) + Bit(mask, 7) + Bit(mask, 8)
    ELSE 512

Shr(mask, k) == {b - k : b \in {x \in mask : x >= k}}
Shl(mask, k) == {b + k : b \in {x \in mask : x + k < 32}}
Not(mask) == (0..31) \ mask
Xor(a, b) == (a \ b) \cup (b \ a)

NONE == {}
ALL == BitsOf(\o777777777)
LOW9 == BitsOf(\o777)

\* usize::MAX, as far as the integers of the model reach
usize_MAX == 2147483647

\* MaskIter::peek: the lowest set bit, as a mask
MaskIter_peek(mask) == IF mask = {} THEN <<>> ELSE <<{Min(mask)}>>

nonconflicting_cells_same_band_MASKS == <<
    \o770770001, \o770770002, \o770770004, \o707707010, \o707707020, \o707707040, \o077077100, \o077077200, \o077077400,
    \o770001770, \o770002770, \o770004770, \o707010707, \o707020707, \o707040707, \o077100077, \o077200077, \o077400077,
    \o001770770, \o002770770, \o004770770, \o010707707, \o020707707, \o040707707, \o100077077, \o200077077, \o400077077,
    \o770770001, \o770770002, \o770770004, \o707707010, \o707707020, \o707707040, \o077077100, \o077077200, \o077077400,
    \o770001770, \o770002770, \o770004770, \o707010707, \o707020707, \o707040707, \o077100077, \o077200077, \o077400077,
    \o001770770, \o002770770, \o004770770, \o010707707, \o020707707, \o040707707, \o100077077, \o200077077, \o400077077,
    \o770770001, \o770770002, \o770770004, \o707707010, \o707707020, \o707707040, \o077077100, \o077077200, \o077077400,
    \o770001770, \o770002770, \o770004770, \o707010707, \o707020707, \o707040707, \o077100077, \o077200077, \o077400077,
    \o001770770, \o002770770, \o004770770, \o010707707, \o020707707, \o040707707, \o100077077, \o200077077, \o400077077
>>

nonconflicting_cells_neighbour_bands_MASKS == <<
    \o776776776, \o775775775, \o773773773, \o767767767, \o757757757, \o737737737, \o677677677, \o577577577, \o377377377,
    \o776776776, \o775775775, \o773773773, \o767767767, \o757757757, \o737737737, \o677677677, \o577577577, \o377377377,
    \o776776776, \o775775775, \o773773773, \o767767767, \o757757757, \o737737737, \o677677677, \o577577577, \o377377377,
    \o776776776, \o775775775, \o773773773, \o767767767, \o757757757, \o737737737, \o677677677, \o577577577, \o377377377,
    \o776776776, \o775775775, \o773773773, \o767767767, \o757757757, \o737737737, \o677677677, \o577577577, \o377377377,
    \o776776776, \o775775775, \o773773773, \o767767767, \o757757757, \o737737737, \o677677677, \o577577577, \o377377377,
    \o776776776, \o775775775, \o773773773, \o767767767, \o757757757, \o737737737, \o677677677, \o577577577, \o377377377,
    \o776776776, \o775775775, \o773773773, \o767767767, \o757757757, \o737737737, \o677677677, \o577577577, \o377377377,
    \o776776776, \o775775775, \o773773773, \o767767767, \o757757757, \o737737737, \o677677677, \o577577577, \o377377377
>>

nonconflicting_cells_same_band_by_locked_candidates_MASKS == <<
    \o000000000, \o000000000, \o000000000, \o000000000, \o000000000, \o000000000, \o000000000, \o000000000,
    \o000000000, \o000000000, \o000000000, \o000000000, \o000000000, \o000000000, \o000000000, \o000000000,
    \o000000000, \o000000000, \o000000000, \o000000000, \o000000000, \o000000000, \o000000000, \o000000000,
    \o000000000, \o000000000, \o000000000, \o000000000, \o000000000, \o000000000, \o000000000, \o000000000,
    \o000000000, \o000000000, \o000000000, \o000000000, \o000000000, \o000000000, \o000000000, \o000000000,
    \o000000000, \o000000000, \o000000000, \o000000000, \o000000000, \o000000000, \o000000000, \o000000000,
    \o000000000, \o000000000, \o000000000, \o000000000, \o000000000, \o000000000, \o000000000, \o000000000,
    \o000000000, \o000000000, \o000000000, \o000000000, \o000000000, \o000000000, \o000000000, \o000000000,
    \o000000000, \o000000000, \o000000000, \o000000000, \o000000000, \o000000000, \o000000000, \o000000000,
    \o000000000, \o000000000, \o000000000, \o000000000, \o000000000, \o000000000, \o000000000, \o000000000,
    \o000000000, \o000000000, \o000000000, \o000000000, \o007070700, \o707070700, \o007770700, \o707770700,
    \o000000000, \o000000000, \o000000000, \o000000000, \o077070700, \o777070700, \o777770700, \o777770700,
    \o000000000, \o000000000, \o007700070, \o077700070, \o000000000, \o000000000, \o007770070, \o077770070,
    \o000000000, \o000000000, \o707700070, \o777700070, \o000000000, \o000000000, \o777770070, \o777770070,
    \o000000000, \o000000000, \o007700770, \o777700770, \o007070770, \o777070770, \o007770770, \o777770770,
    \o000000000, \o000000000, \o707700770, \o777700770, \o077070770, \o777070770, \o777770770, \o777770770,
    \o000000000, \o000000000, \o000000000, \o000000000, \o000000000, \o000000000, \o000000000, \o000000000,
    \o000000000, \o000000000, \o000000000, \o000000000, \o070007700, \o070707700, \o770007700, \o770707700,
    \o000000000, \o000000000, \o000000000, \o000000000, \o000000000, \o000000000, \o000000000, \o000000000,
    \o000000000, \o000000000, \o000000000, \o000000000, \o077007700, \o777707700, \o777007700, \o777707700,
    \o000000000, \o070700007, \o000000000, \o077700007, \o000000000, \o070707007, \o000000000, \o077707007,
    \o000000000, \o070700707, \o000000000, \o777700707, \o070007707, \o070707707, \o777007707, \o777707707,
    \o000000000, \o770700007, \o000000000, \o777700007, \o000000000, \o777707007, \o000000000, \o777707007,
    \o000000000, \o770700707, \o000000000, \o777700707, \o077007707, \o777707707, \o777007707, \o777707707,
    \o000000000, \o000000000, \o000000000, \o000000000, \o000000000, \o000000000, \o000000000, \o000000000,
    \o000000000, \o000000000, \o000000000, \o000000000, \o070077700, \o070777700, \o770777700, \o770777700,
    \o000000000, \o000000000, \o000000000, \o000000000, \o007077700, \o707777700, \o007777700, \o707777700,
    \o000000000, \o000000000, \o000000000, \o000000000, \o077077700, \o777777700, \o777777700, \o777777700,
    \o000000000, \o070700077, \o007700077, \o077700077, \o000000000, \o070777077, \o007777077, \o077777077,
    \o000000000, \o070700777, \o707700777, \o777700777, \o070077777, \o070777777, \o777777777, \o777777777,
    \o000000000, \o770700777, \o007700777, \o777700777, \o007077777, \o777777777, \o007777777, \o777777777,
    \o000000000, \o770700777, \o707700777, \o777700777, \o077077777, \o777777777, \o777777777, \o777777777,
    \o000000000, \o000000000, \o000000000, \o000000000, \o000000000, \o000000000, \o000000000, \o000000000,
    \o000000000, \o000000000, \o700007070, \o700077070, \o000000000, \o000000000, \o770007070, \o770077070,
    \o000000000, \o700070007, \o000000000, \o700077007, \o000000000, \o707070007, \o000000000, \o707077007,
    \o000000000, \o700070077, \o700007077, \o700077077, \o000000000, \o777070077, \o777007077, \o777077077,
    \o000000000, \o000000000, \o000000000, \o000000000, \o000000000, \o000000000, \o000000000, \o000000000,
    \o000000000, \o000000000, \o707007070, \o777077070, \o000000000, \o000000000, \o777007070, \o777077070,
    \o000000000, \o770070007, \o000000000, \o777077007, \o000000000, \o777070007, \o000000000, \o777077007,
    \o000000000, \o770070077, \o707007077, \o777077077, \o000000000, \o777070077, \o777007077, \o777077077,
    \o000000000, \o000000000, \o000000000, \o000000000, \o000000000, \o000000000, \o000000000, \o000000000,
    \o000000000, \o000000000, \o700707070, \o700777070, \o000000000, \o000000000, \o770777070, \o770777070,
    \o000000000, \o700070707, \o000000000, \o700777707, \o007070707, \o707070707, \o007777707, \o707777707,
    \o000000000, \o700070777, \o700707777, \o700777777, \o077070777, \o777070777, \o777777777, \o777777777,
    \o000000000, \o000000000, \o007707070, \o077777070, \o000000000, \o000000000, \o007777070, \o077777070,
    \o000000000, \o000000000, \o707707070, \o777777070, \o000000000, \o000000000, \o777777070, \o777777070,
    \o000000000, \o770070777, \o007707777, \o777777777, \o007070777, \o777070777, \o007777777, \o777777777,
    \o000000000, \o770070777, \o707707777, \o777777777, \o077070777, \o777070777, \o777777777, \o777777777,
    \o000000000, \o000000000, \o000000000, \o000000000, \o000000000, \o000000000, \o000000000, \o000000000,
    \o000000000, \o000000000, \o700007770, \o700777770, \o070007770, \o070777770, \o770007770, \o770777770,
    \o000000000, \o700770007, \o000000000, \o700777007, \o000000000, \o707777007, \o000000000, \o707777007,
    \o000000000, \o700770777, \o700007777, \o700777777, \o077007777, \o777777777, \o777007777, \o777777777,
    \o000000000, \o070770007, \o000000000, \o077777007, \o000000000, \o070777007, \o000000000, \o077777007,
    \o000000000, \o070770777, \o707007777, \o777777777, \o070007777, \o070777777, \o777007777, \o777777777,
    \o000000000, \o770770007, \o000000000, \o777777007, \o000000000, \o777777007, \o000000000, \o777777007,
    \o000000000, \o770770777, \o707007777, \o777777777, \o077007777, \o777777777, \o777007777, \o777777777,
    \o000000000, \o000000000, \o000000000, \o000000000, \o000000000, \o000000000, \o000000000, \o000000000,
    \o000000000, \o000000000, \o700707770, \o700777770, \o070077770, \o070777770, \o770777770, \o770777770,
    \o000000000, \o700770707, \o000000000, \o700777707, \o007077707, \o707777707, \o007777707, \o707777707,
    \o000000000, \o700770777, \o700707777, \o700777777, \o077077777, \o777777777, \o777777777, \o777777777,
    \o000000000, \o070770077, \o007707077, \o077777077, \o000000000, \o070777077, \o007777077, \o077777077,
    \o000000000, \o070770777, \o707707777, \o777777777, \o070077777, \o070777777, \o777777777, \o777777777,
    \o000000000, \o770770777, \o007707777, \o777777777, \o007077777, \o777777777, \o007777777, \o777777777,
    \o000000000, \o770770777, \o707707777, \o777777777, \o077077777, \o777777777, \o777777777, \o777777777
>>

nonconflicting_cells_neighbour_bands_by_locked_candidates_MASKS == <<
    \o777777777, \o776776776, \o775775775, \o777777777, \o773773773, \o777777777, \o777777777, \o777777777,
    \o767767767, \o766766766, \o765765765, \o767767767, \o763763763, \o767767767, \o767767767, \o767767767,
    \o757757757, \o756756756, \o755755755, \o757757757, \o753753753, \o757757757, \o757757757, \o757757757,
    \o777777777, \o776776776, \o775775775, \o777777777, \o773773773, \o777777777, \o777777777, \o777777777,
    \o737737737, \o736736736, \o735735735, \o737737737, \o733733733, \o737737737, \o737737737, \o737737737,
    \o777777777, \o776776776, \o775775775, \o777777777, \o773773773, \o777777777, \o777777777, \o777777777,
    \o777777777, \o776776776, \o775775775, \o777777777, \o773773773, \o777777777, \o777777777, \o777777777,
    \o777777777, \o776776776, \o775775775, \o777777777, \o773773773, \o777777777, \o777777777, \o777777777,
    \o677677677, \o676676676, \o675675675, \o677677677, \o673673673, \o677677677, \o677677677, \o677677677,
    \o667667667, \o666666666, \o665665665, \o667667667, \o663663663, \o667667667, \o667667667, \o667667667,
    \o657657657, \o656656656, \o655655655, \o657657657, \o653653653, \o657657657, \o657657657, \o657657657,
    \o677677677, \o676676676, \o675675675, \o677677677, \o673673673, \o677677677, \o677677677, \o677677677,
    \o637637637, \o636636636, \o635635635, \o637637637, \o633633633, \o637637637, \o637637637, \o637637637,
    \o677677677, \o676676676, \o675675675, \o677677677, \o673673673, \o677677677, \o677677677, \o677677677,
    \o677677677, \o676676676, \o675675675, \o677677677, \o673673673, \o677677677, \o677677677, \o677677677,
    \o677677677, \o676676676, \o675675675, \o677677677, \o673673673, \o677677677, \o677677677, \o677677677,
    \o577577577, \o576576576, \o575575575, \o577577577, \o573573573, \o577577577, \o577577577, \o577577577,
    \o567567567, \o566566566, \o565565565, \o567567567, \o563563563, \o567567567, \o567567567, \o567567567,
    \o557557557, \o556556556, \o555555555, \o557557557, \o553553553, \o557557557, \o557557557, \o557557557,
    \o577577577, \o576576576, \o575575575, \o577577577, \o573573573, \o577577577, \o577577577, \o577577577,
    \o537537537, \o536536536, \o535535535, \o537537537, \o533533533, \o537537537, \o537537537, \o537537537,
    \o577577577, \o576576576, \o575575575, \o577577577, \o573573573, \o577577577, \o577577577, \o577577577,
    \o577577577, \o576576576, \o575575575, \o577577577, \o573573573, \o577577577, \o577577577, \o577577577,
    \o577577577, \o576576576, \o575575575, \o577577577, \o573573573, \o577577577, \o577577577, \o577577577,
    \o777777777, \o776776776, \o775775775, \o777777777, \o773773773, \o777777777, \o777777777, \o777777777,
    \o767767767, \o766766766, \o765765765, \o767767767, \o763763763, \o767767767, \o767767767, \o767767767,
    \o757757757, \o756756756, \o755755755, \o757757757, \o753753753, \o757757757, \o757757757, \o757757757,
    \o777777777, \o776776776, \o775775775, \o777777777, \o773773773, \o777777777, \o777777777, \o777777777,
    \o737737737, \o736736736, \o735735735, \o737737737, \o733733733, \o737737737, \o737737737, \o737737737,
    \o777777777, \o776776776, \o775775775, \o777777777, \o773773773, \o777777777, \o777777777, \o777777777,
    \o777777777, \o776776776, \o775775775, \o777777777, \o773773773, \o777777777, \o777777777, \o777777777,
    \o777777777, \o776776776, \o775775775, \o777777777, \o773773773, \o777777777, \o777777777, \o777777777,
    \o377377377, \o376376376, \o375375375, \o377377377, \o373373373, \o377377377, \o377377377, \o377377377,
    \o367367367, \o366366366, \o365365365, \o367367367, \o363363363, \o367367367, \o367367367, \o367367367,
    \o357357357, \o356356356, \o355355355, \o357357357, \o353353353, \o357357357, \o357357357, \o357357357,
    \o377377377, \o376376376, \o375375375, \o377377377, \o373373373, \o377377377, \o377377377, \o377377377,
    \o337337337, \o336336336, \o335335335, \o337337337, \o333333333, \o337337337, \o337337337, \o337337337,
    \o377377377, \o376376376, \o375375375, \o377377377, \o373373373, \o377377377, \o377377377, \o377377377,
    \o377377377, \o376376376, \o375375375, \o377377377, \o373373373, \o377377377, \o377377377, \o377377377,
    \o377377377, \o376376376, \o375375375, \o377377377, \o373373373, \o377377377, \o377377377, \o377377377,
    \o777777777, \o776776776, \o775775775, \o777777777, \o773773773, \o777777777, \o777777777, \o777777777,
    \o767767767, \o766766766, \o765765765, \o767767767, \o763763763, \o767767767, \o767767767, \o767767767,
    \o757757757, \o756756756, \o755755755, \o757757757, \o753753753, \o757757757, \o757757757, \o757757757,
    \o777777777, \o776776776, \o775775775, \o777777777, \o773773773, \o777777777, \o777777777, \o777777777,
    \o737737737, \o736736736, \o735735735, \o737737737, \o733733733, \o737737737, \o737737737, \o737737737,
    \o777777777, \o776776776, \o775775775, \o777777777, \o773773773, \o777777777, \o777777777, \o777777777,
    \o777777777, \o776776776, \o775775775, \o777777777, \o773773773, \o777777777, \o777777777, \o777777777,
    \o777777777, \o776776776, \o775775775, \o777777777, \o773773773, \o777777777, \o777777777, \o777777777,
    \o777777777, \o776776776, \o775775775, \o777777777, \o773773773, \o777777777, \o777777777, \o777777777,
    \o767767767, \o766766766, \o765765765, \o767767767, \o763763763, \o767767767, \o767767767, \o767767767,
    \o757757757, \o756756756, \o755755755, \o757757757, \o753753753, \o757757757, \o757757757, \o757757757,
    \o777777777, \o776776776, \o775775775, \o777777777, \o773773773, \o777777777, \o777777777, \o777777777,
    \o737737737, \o736736736, \o735735735, \o737737737, \o733733733, \o737737737, \o737737737, \o737737737,
    \o777777777, \o776776776, \o775775775, \o777777777, \o773773773, \o777777777, \o777777777, \o777777777,
    \o777777777, \o776776776, \o775775775, \o777777777, \o773773773, \o777777777, \o777777777, \o777777777,
    \o777777777, \o776776776, \o775775775, \o777777777, \o773773773, \o777777777, \o777777777, \o777777777,
    \o777777777, \o776776776, \o775775775, \o777777777, \o773773773, \o777777777, \o777777777, \o777777777,
    \o767767767, \o766766766, \o765765765, \o767767767, \o763763763, \o767767767, \o767767767, \o767767767,
    \o757757757, \o756756756, \o755755755, \o757757757, \o753753753, \o757757757, \o757757757, \o757757757,
    \o777777777, \o776776776, \o775775775, \o777777777, \o773773773, \o777777777, \o777777777, \o777777777,
    \o737737737, \o736736736, \o735735735, \o737737737, \o733733733, \o737737737, \o737737737, \o737737737,
    \o777777777, \o776776776, \o775775775, \o777777777, \o773773773, \o777777777, \o777777777, \o777777777,
    \o777777777, \o776776776, \o775775775, \o777777777, \o773773773, \o777777777, \o777777777, \o777777777,
    \o777777777, \o776776776, \o775775775, \o777777777, \o773773773, \o777777777, \o777777777, \o777777777
>>

locked_minirows_MASKS == <<
    \o000, \o000, \o000, \o000, \o000, \o000, \o000, \o000, \o000, \o000, \o000, \o000, \o000, \o000, \o000, \o000,
    \o000, \o000, \o000, \o000, \o000, \o000, \o000, \o000, \o000, \o000, \o000, \o000, \o000, \o000, \o000, \o000,
    \o000, \o000, \o000, \o000, \o000, \o000, \o000, \o000, \o000, \o000, \o000, \o000, \o000, \o000, \o000, \o000,
    \o000, \o000, \o000, \o000, \o000, \o000, \o000, \o000, \o000, \o000, \o000, \o000, \o000, \o000, \o000, \o000,
    \o000, \o000, \o000, \o000, \o000, \o000, \o000, \o000, \o000, \o000, \o000, \o000, \o000, \o000, \o000, \o000,
    \o000, \o000, \o000, \o000, \o124, \o124, \o124, \o124, \o000, \o000, \o000, \o000, \o124, \o124, \o124, \o124,
    \o000, \o000, \o142, \o142, \o000, \o000, \o142, \o142, \o000, \o000, \o142, \o142, \o000, \o000, \o142, \o142,
    \o000, \o000, \o142, \o142, \o124, \o124, \o100, \o100, \o000, \o000, \o142, \o142, \o124, \o124, \o100, \o100,
    \o000, \o000, \o000, \o000, \o000, \o000, \o000, \o000, \o000, \o000, \o000, \o000, \o214, \o214, \o214, \o214,
    \o000, \o000, \o000, \o000, \o000, \o000, \o000, \o000, \o000, \o000, \o000, \o000, \o214, \o214, \o214, \o214,
    \o000, \o241, \o000, \o241, \o000, \o241, \o000, \o241, \o000, \o241, \o000, \o241, \o214, \o200, \o214, \o200,
    \o000, \o241, \o000, \o241, \o000, \o241, \o000, \o241, \o000, \o241, \o000, \o241, \o214, \o200, \o214, \o200,
    \o000, \o000, \o000, \o000, \o000, \o000, \o000, \o000, \o000, \o000, \o000, \o000, \o214, \o214, \o214, \o214,
    \o000, \o000, \o000, \o000, \o124, \o124, \o124, \o124, \o000, \o000, \o000, \o000, \o004, \o004, \o004, \o004,
    \o000, \o241, \o142, \o040, \o000, \o241, \o142, \o040, \o000, \o241, \o142, \o040, \o214, \o200, \o000, \o000,
    \o000, \o241, \o142, \o040, \o124, \o000, \o100, \o000, \o000, \o241, \o142, \o040, \o004, \o000, \o000, \o000,
    \o000, \o000, \o000, \o000, \o000, \o000, \o000, \o000, \o000, \o000, \o412, \o412, \o000, \o000, \o412, \o412,
    \o000, \o421, \o000, \o421, \o000, \o421, \o000, \o421, \o000, \o421, \o412, \o400, \o000, \o421, \o412, \o400,
    \o000, \o000, \o000, \o000, \o000, \o000, \o000, \o000, \o000, \o000, \o412, \o412, \o000, \o000, \o412, \o412,
    \o000, \o421, \o000, \o421, \o000, \o421, \o000, \o421, \o000, \o421, \o412, \o400, \o000, \o421, \o412, \o400,
    \o000, \o000, \o000, \o000, \o000, \o000, \o000, \o000, \o000, \o000, \o412, \o412, \o000, \o000, \o412, \o412,
    \o000, \o421, \o000, \o421, \o124, \o020, \o124, \o020, \o000, \o421, \o412, \o400, \o124, \o020, \o000, \o000,
    \o000, \o000, \o142, \o142, \o000, \o000, \o142, \o142, \o000, \o000, \o002, \o002, \o000, \o000, \o002, \o002,
    \o000, \o421, \o142, \o000, \o124, \o020, \o100, \o000, \o000, \o421, \o002, \o000, \o124, \o020, \o000, \o000,
    \o000, \o000, \o000, \o000, \o000, \o000, \o000, \o000, \o000, \o000, \o412, \o412, \o214, \o214, \o010, \o010,
    \o000, \o421, \o000, \o421, \o000, \o421, \o000, \o421, \o000, \o421, \o412, \o400, \o214, \o000, \o010, \o000,
    \o000, \o241, \o000, \o241, \o000, \o241, \o000, \o241, \o000, \o241, \o412, \o000, \o214, \o200, \o010, \o000,
    \o000, \o001, \o000, \o001, \o000, \o001, \o000, \o001, \o000, \o001, \o412, \o000, \o214, \o000, \o010, \o000,
    \o000, \o000, \o000, \o000, \o000, \o000, \o000, \o000, \o000, \o000, \o412, \o412, \o214, \o214, \o010, \o010,
    \o000, \o421, \o000, \o421, \o124, \o020, \o124, \o020, \o000, \o421, \o412, \o400, \o004, \o000, \o000, \o000,
    \o000, \o241, \o142, \o040, \o000, \o241, \o142, \o040, \o000, \o241, \o002, \o000, \o214, \o200, \o000, \o000,
    \o000, \o001, \o142, \o000, \o124, \o000, \o100, \o000, \o000, \o001, \o002, \o000, \o004, \o000, \o000, \o000
>>

column_single_MASKS == <<
    \o000, \o000, \o000, \o000, \o000, \o000, \o000, \o000, \o000, \o000, \o000, \o000, \o000, \o000, \o000, \o000,
    \o000, \o000, \o000, \o000, \o000, \o000, \o000, \o000, \o000, \o000, \o000, \o000, \o000, \o000, \o000, \o000,
    \o000, \o000, \o000, \o000, \o000, \o000, \o000, \o000, \o000, \o000, \o000, \o000, \o000, \o000, \o000, \o000,
    \o000, \o000, \o000, \o000, \o000, \o000, \o000, \o000, \o000, \o000, \o000, \o000, \o000, \o000, \o000, \o000,
    \o000, \o000, \o000, \o000, \o000, \o000, \o000, \o000, \o000, \o777, \o777, \o666, \o777, \o666, \o666, \o666,
    \o000, \o777, \o777, \o666, \o777, \o666, \o666, \o666, \o000, \o555, \o555, \o444, \o555, \o444, \o444, \o444,
    \o000, \o777, \o777, \o666, \o777, \o666, \o666, \o666, \o000, \o555, \o555, \o444, \o555, \o444, \o444, \o444,
    \o000, \o555, \o555, \o444, \o555, \o444, \o444, \o444, \o000, \o555, \o555, \o444, \o555, \o444, \o444, \o444,
    \o000, \o000, \o000, \o000, \o000, \o000, \o000, \o000, \o000, \o777, \o777, \o666, \o777, \o666, \o666, \o666,
    \o000, \o777, \o777, \o666, \o777, \o666, \o666, \o666, \o000, \o555, \o555, \o444, \o555, \o444, \o444, \o444,
    \o000, \o777, \o777, \o666, \o777, \o666, \o666, \o666, \o000, \o555, \o555, \o444, \o555, \o444, \o444, \o444,
    \o000, \o555, \o555, \o444, \o555, \o444, \o444, \o444, \o000, \o555, \o555, \o444, \o555, \o444, \o444, \o444,
    \o000, \o000, \o000, \o000, \o000, \o000, \o000, \o000, \o000, \o333, \o333, \o222, \o333, \o222, \o222, \o222,
    \o000, \o333, \o333, \o222, \o333, \o222, \o222, \o222, \o000, \o111, \o111, \o000, \o111, \o000, \o000, \o000,
    \o000, \o333, \o333, \o222, \o333, \o222, \o222, \o222, \o000, \o111, \o111, \o000, \o111, \o000, \o000, \o000,
    \o000, \o111, \o111, \o000, \o111, \o000, \o000, \o000, \o000, \o111, \o111, \o000, \o111, \o000, \o000, \o000,
    \o000, \o000, \o000, \o000, \o000, \o000, \o000, \o000, \o000, \o777, \o777, \o666, \o777, \o666, \o666, \o666,
    \o000, \o777, \o777, \o666, \o777, \o666, \o666, \o666, \o000, \o555, \o555, \o444, \o555, \o444, \o444, \o444,
    \o000, \o777, \o777, \o666, \o777, \o666, \o666, \o666, \o000, \o555, \o555, \o444, \o555, \o444, \o444, \o444,
    \o000, \o555, \o555, \o444, \o555, \o444, \o444, \o444, \o000, \o555, \o555, \o444, \o555, \o444, \o444, \o444,
    \o000, \o000, \o000, \o000, \o000, \o000, \o000, \o000, \o000, \o333, \o333, \o222, \o333, \o222, \o222, \o222,
    \o000, \o333, \o333, \o222, \o333, \o222, \o222, \o222, \o000, \o111, \o111, \o000, \o111, \o000, \o000, \o000,
    \o000, \o333, \o333, \o222, \o333, \o222, \o222, \o222, \o000, \o111, \o111, \o000, \o111, \o000, \o000, \o000,
    \o000, \o111, \o111, \o000, \o111, \o000, \o000, \o000, \o000, \o111, \o111, \o000, \o111, \o000, \o000, \o000,
    \o000, \o000, \o000, \o000, \o000, \o000, \o000, \o000, \o000, \o333, \o333, \o222, \o333, \o222, \o222, \o222,
    \o000, \o333, \o333, \o222, \o333, \o222, \o222, \o222, \o000, \o111, \o111, \o000, \o111, \o000, \o000, \o000,
    \o000, \o333, \o333, \o222, \o333, \o222, \o222, \o222, \o000, \o111, \o111, \o000, \o111, \o000, \o000, \o000,
    \o000, \o111, \o111, \o000, \o111, \o000, \o000, \o000, \o000, \o111, \o111, \o000, \o111, \o000, \o000, \o000,
    \o000, \o000, \o000, \o000, \o000, \o000, \o000, \o000, \o000, \o333, \o333, \o222, \o333, \o222, \o222, \o222,
    \o000, \o333, \o333, \o222, \o333, \o222, \o222, \o222, \o000, \o111, \o111, \o000, \o111, \o000, \o000, \o000,
    \o000, \o333, \o333, \o222, \o333, \o222, \o222, \o222, \o000, \o111, \o111, \o000, \o111, \o000, \o000, \o000,
    \o000, \o111, \o111, \o000, \o111, \o000, \o000, \o000, \o000, \o111, \o111, \o000, \o111, \o000, \o000, \o000
>>

row_mask_MASKS == <<
    \o000000000, \o000000777, \o000777000, \o000777777,
    \o777000000, \o777000777, \o777777000, \o777777777
>>

shrink_mask_MASKS == <<
    0, 1, 1, 1, 1, 1, 1, 1, 2, 3, 3, 3, 3, 3, 3, 3, 2, 3, 3, 3, 3, 3, 3, 3, 2, 3, 3, 3, 3, 3, 3, 3,
    2, 3, 3, 3, 3, 3, 3, 3, 2, 3, 3, 3, 3, 3, 3, 3, 2, 3, 3, 3, 3, 3, 3, 3, 2, 3, 3, 3, 3, 3, 3, 3,
    4, 5, 5, 5, 5, 5, 5, 5, 6, 7, 7, 7, 7, 7, 7, 7, 6, 7, 7, 7, 7, 7, 7, 7, 6, 7, 7, 7, 7, 7, 7, 7,
    6, 7, 7, 7, 7, 7, 7, 7, 6, 7, 7, 7, 7, 7, 7, 7, 6, 7, 7, 7, 7, 7, 7, 7, 6, 7, 7, 7, 7, 7, 7, 7,
    4, 5, 5, 5, 5, 5, 5, 5, 6, 7, 7, 7, 7, 7, 7, 7, 6, 7, 7, 7, 7, 7, 7, 7, 6, 7, 7, 7, 7, 7, 7, 7,
    6, 7, 7, 7, 7, 7, 7, 7, 6, 7, 7, 7, 7, 7, 7, 7, 6, 7, 7, 7, 7, 7, 7, 7, 6, 7, 7, 7, 7, 7, 7, 7,
    4, 5, 5, 5, 5, 5, 5, 5, 6, 7, 7, 7, 7, 7, 7, 7, 6, 7, 7, 7, 7, 7, 7, 7, 6, 7, 7, 7, 7, 7, 7, 7,
    6, 7, 7, 7, 7, 7, 7, 7, 6, 7, 7, 7, 7, 7, 7, 7, 6, 7, 7, 7, 7, 7, 7, 7, 6, 7, 7, 7, 7, 7, 7, 7,
    4, 5, 5, 5, 5, 5, 5, 5, 6, 7, 7, 7, 7, 7, 7, 7, 6, 7, 7, 7, 7, 7, 7, 7, 6, 7, 7, 7, 7, 7, 7, 7,
    6, 7, 7, 7, 7, 7, 7, 7, 6, 7, 7, 7, 7, 7, 7, 7, 6, 7, 7, 7, 7, 7, 7, 7, 6, 7, 7, 7, 7, 7, 7, 7,
    4, 5, 5, 5, 5, 5, 5, 5, 6, 7, 7, 7, 7, 7, 7, 7, 6, 7, 7, 7, 7, 7, 7, 7, 6, 7, 7, 7, 7, 7, 7, 7,
    6, 7, 7, 7, 7, 7, 7, 7, 6, 7, 7, 7, 7, 7, 7, 7, 6, 7, 7, 7, 7, 7, 7, 7, 6, 7, 7, 7, 7, 7, 7, 7,
    4, 5, 5, 5, 5, 5, 5, 5, 6, 7, 7, 7, 7, 7, 7, 7, 6, 7, 7, 7, 7, 7, 7, 7, 6, 7, 7, 7, 7, 7, 7, 7,
    6, 7, 7, 7, 7, 7, 7, 7, 6, 7, 7, 7, 7, 7, 7, 7, 6, 7, 7, 7, 7, 7, 7, 7, 6, 7, 7, 7, 7, 7, 7, 7,
    4, 5, 5, 5, 5, 5, 5, 5, 6, 7, 7, 7, 7, 7, 7, 7, 6, 7, 7, 7, 7, 7, 7, 7, 6, 7, 7, 7, 7, 7, 7, 7,
    6, 7, 7, 7, 7, 7, 7, 7, 6, 7, 7, 7, 7, 7, 7, 7, 6, 7, 7, 7, 7, 7, 7, 7, 6, 7, 7, 7, 7, 7, 7, 7
>>

nonconflicting_cells_same_band_SETS ==
    [cell \in 0..80 |-> BitsOf(nonconflicting_cells_same_band_MASKS[cell + 1])]
nonconflicting_cells_same_band(cell) == nonconflicting_cells_same_band_SETS[cell]

nonconflicting_cells_neighbour_bands_SETS ==
    [cell \in 0..80 |-> BitsOf(nonconflicting_cells_neighbour_bands_MASKS[cell + 1])]
\* nonconflicting_cells_neighbour_bands keeping the column of the cell
nonconflicting_cells_neighbour_bands_column_kept(cell) == ALL

nonconflicting_cells_neighbour_bands(cell) ==
    nonconflicting_cells_neighbour_bands_SETS[cell]

nonconflicting_cells_same_band_by_locked_candidates_SETS ==
    [i \in 0..511 |->
        BitsOf(nonconflicting_cells_same_band_by_locked_candidates_MASKS[i + 1])]
nonconflicting_cells_same_band_by_locked_candidates(shrink) ==
    nonconflicting_cells_same_band_by_locked_candidates_SETS[ToInt(shrink)]

nonconflicting_cells_neighbour_bands_by_locked_candidates_SETS ==
    [i \in 0..511 |->
        BitsOf(nonconflicting_cells_neighbour_bands_by_locked_candidates_MASKS[i + 1])]
nonconflicting_cells_neighbour_bands_by_locked_candidates(columns) ==
    nonconflicting_cells_neighbour_bands_by_locked_candidates_SETS[ToInt(columns)]

locked_minirows_SETS == [i \in 0..511 |-> BitsOf(locked_minirows_MASKS[i + 1])]
locked_minirows(shrink) == locked_minirows_SETS[ToInt(shrink)]

column_single_SETS == [i \in 0..511 |-> BitsOf(column_single_MASKS[i + 1])]
column_single(shrink) == column_single_SETS[ToInt(shrink)]

neighbour_subbands_NEIGHBOURS == <<
    <<1, 2>>, <<2, 0>>, <<0, 1>>,
    <<4, 5>>, <<5, 3>>, <<3, 4>>,
    <<7, 8>>, <<8, 6>>, <<6, 7>>,
    <<10, 11>>, <<11, 9>>, <<9, 10>>,
    <<13, 14>>, <<14, 12>>, <<12, 13>>,
    <<16, 17>>, <<17, 15>>, <<15, 16>>,
    <<19, 20>>, <<20, 18>>, <<18, 19>>,
    <<22, 23>>, <<23, 21>>, <<21, 22>>,
    <<25, 26>>, <<26, 24>>, <<24, 25>>
>>
neighbour_subbands(subband) == neighbour_subbands_NEIGHBOURS[subband + 1]

row_mask_SETS == [i \in 0..7 |-> BitsOf(row_mask_MASKS[i + 1])]
row_mask(shrink) == row_mask_SETS[ToInt(shrink)]

shrink_mask_SETS == [i \in 0..511 |-> BitsOf(shrink_mask_MASKS[i + 1])]
shrink_mask(cell_mask) == shrink_mask_SETS[ToInt(cell_mask)]

\* An array of n equal values, indexed from 0
UncheckedIndexArray(value, n) == [i \in 0..(n - 1) |-> value] @@ <<>>

\* The solver before any clue is inserted
FastBruteForceSolver_new ==
    [possible_cells |-> UncheckedIndexArray(ALL, N_SUBBANDS),
     prev_possible_cells |-> UncheckedIndexArray(NONE, N_SUBBANDS),
     unsolved_cells |-> UncheckedIndexArray(ALL, N_BANDS),
     bivalue_cells |-> UncheckedIndexArray(NONE, N_BANDS)]

\* Result<Self, Unsolvable>, with the solver as the failure left it
Ok(self) == [ok |-> TRUE, self |-> self]
Err(self) == [ok |-> FALSE, self |-> self]

\* Option::unwrap_or
unwrap_or(option, default) == IF option # <<>> THEN option[1] ELSE default

insert_value_by_mask(self, subband, mask) ==
    [self EXCEPT !.possible_cells[subband] =
                     @ \cap nonconflicting_cells_same_band(Min(mask))]

\* possible_cells with a mask removed from the nine subbands of a band,
\* other than the subband skip
clear_in_band(possible_cells, band, mask, skip) ==
    [possible_cells EXCEPT
        ![band] = IF band = skip THEN @ ELSE @ \cap Not(mask),
        ![3 + band] = IF 3 + band = skip THEN @ ELSE @ \cap Not(mask),
        ![6 + band] = IF 6 + band = skip THEN @ ELSE @ \cap Not(mask),
        ![9 + band] = IF 9 + band = skip THEN @ ELSE @ \cap Not(mask),
        ![12 + band] = IF 12 + band = skip THEN @ ELSE @ \cap Not(mask),
        ![15 + band] = IF 15 + band = skip THEN @ ELSE @ \cap Not(mask),
        ![18 + band] = IF 18 + band = skip THEN @ ELSE @ \cap Not(mask),
        ![21 + band] = IF 21 + band = skip THEN @ ELSE @ \cap Not(mask),
        ![24 + band] = IF 24 + band = skip THEN @ ELSE @ \cap Not(mask)]

\* The removals of insert_value, for a clue whose position is possible
insert_value_remove(self, cell, band, subband, cell_mask, nonconflicting_neighbours, nb) ==
    [self EXCEPT
        !.unsolved_cells[band] = @ \cap Not(cell_mask),
        !.possible_cells =
            [clear_in_band(
                 [@ EXCEPT ![subband] = @ \cap nonconflicting_cells_same_band(cell),
                           ![nb[1]] = @ \cap nonconflicting_neighbours,
                           ![nb[2]] = @ \cap nonconflicting_neighbours],
                 band, cell_mask, N_SUBBANDS)
             EXCEPT ![subband] = @ \cup cell_mask]]

insert_value_at(self, cell, band, subband, cell_mask) ==
    IF self.possible_cells[subband] \cap cell_mask = NONE THEN Err(self)
    ELSE Ok(insert_value_remove(self, cell, band, subband, cell_mask,
                nonconflicting_cells_neighbour_bands(cell), neighbour_subbands(subband)))

insert_value(self, cell, value) ==
    insert_value_at(self, cell, cell \div 27, (value - 1) * 3 + cell \div 27, {cell % 27})

\* The clues of the cells lo .. hi - 1 inserted in order, stopping at the
\* first that fails; the range is walked by halves
RECURSIVE from_sudoku_range(_, _, _, _)

from_sudoku_rest(r, sudoku, lo, hi) ==
    IF r.ok THEN from_sudoku_range(r.self, sudoku, lo, hi) ELSE r

from_sudoku_range(solver, sudoku, lo, hi) ==
    IF hi - lo = 1
    THEN IF sudoku[lo] # 0 THEN insert_value(solver, lo, sudoku[lo]) ELSE Ok(solver)
    ELSE from_sudoku_rest(from_sudoku_range(solver, sudoku, lo, (lo + hi) \div 2),
             sudoku, (lo + hi) \div 2, hi)

from_sudoku(sudoku) == from_sudoku_range(FastBruteForceSolver_new, sudoku, 0, N_CELLS)

is_solved(self) == \A band \in 0..(N_BANDS - 1) : self.unsolved_cells[band] = NONE

\* The masks of the cells of a band with >= 1, >= 2 and >= 3 candidates
RECURSIVE candidate_counts(_, _, _, _)

candidate_counts_with(self, band, digit, cells, band_mask) ==
    candidate_counts(self, band, digit + 1,
        <<cells[1] \cup band_mask,
          cells[2] \cup (cells[1] \cap band_mask),
          cells[3] \cup (cells[2] \cap band_mask)>>)

candidate_counts(self, band, digit, cells) ==
    IF digit = N_DIGITS THEN cells
    ELSE candidate_counts_with(self, band, digit, cells,
             self.possible_cells[3 * digit + band])

\* The digit that can go in a single cell is inserted; there may be none
insert_single_digit(self, band, cell_mask_single, digits) ==
    IF digits = {} THEN Err(self)
    ELSE Ok(insert_value_by_mask(self, Min(digits) * 3 + band, cell_mask_single))

insert_single(self, band, cell_mask_single) ==
    insert_single_digit(self, band, cell_mask_single,
        {digit \in 0..(N_DIGITS - 1) :
           self.possible_cells[digit * 3 + band] \cap cell_mask_single # NONE})

\* The singles lo .. hi of an ascending sequence inserted in order, stopping
\* at the first that fails; the range is walked by halves
RECURSIVE insert_singles(_, _, _, _, _)

insert_singles_rest(r, band, singles, lo, hi) ==
    IF r.ok THEN insert_singles(r.self, band, singles, lo, hi) ELSE r

insert_singles(self, band, singles, lo, hi) ==
    IF lo > hi THEN Ok(self)
    ELSE IF lo = hi THEN insert_single(self, band, {singles[lo]})
    ELSE insert_singles_rest(insert_singles(self, band, singles, lo, (lo + hi) \div 2),
             band, singles, (lo + hi) \div 2 + 1, hi)

RECURSIVE find_naked_singles_from(_, _, _)

find_naked_singles_next(r, band, naked_single_applied) ==
    IF r.ok THEN find_naked_singles_from(r.self, band + 1, naked_single_applied)
    ELSE [ok |-> FALSE, applied |-> TRUE, self |-> r.self]

find_naked_singles_insert(self, band, naked_single_applied, singles) ==
    find_naked_singles_next(
        insert_singles(self, band, SetToSeq(singles), 1, Cardinality(singles)),
        band, naked_single_applied \/ singles # NONE)

find_naked_singles_band(self, band, naked_single_applied, cells) ==
    IF cells[1] # ALL
    THEN [ok |-> FALSE, applied |-> naked_single_applied, self |-> self]
    ELSE find_naked_singles_insert(
             [self EXCEPT !.bivalue_cells[band] = Xor(cells[2], cells[3])],
             band, naked_single_applied,
             Xor(cells[1], cells[2]) \cap self.unsolved_cells[band])

find_naked_singles_from(self, band, naked_single_applied) ==
    IF band = N_BANDS
    THEN [ok |-> TRUE, applied |-> naked_single_applied, self |-> self]
    ELSE find_naked_singles_band(self, band, naked_single_applied,
             candidate_counts(self, band, 0, <<NONE, NONE, NONE>>))

find_naked_singles(self) == find_naked_singles_from(self, 0, FALSE)

\* The minirows of a subband that hold a candidate, one bit for each
locked_candidates_shrink(old_possible_cells) ==
    (shrink_mask(old_possible_cells \cap LOW9)
       \cup Shl(shrink_mask(Shr(old_possible_cells, 9) \cap LOW9), 3))
       \cup Shl(shrink_mask(Shr(old_possible_cells, 18)), 6)

\* The cells of a subband that its locked minirows with a single column solve
solved_cells_of(shrink, possible_cells, possible_columns) ==
    row_mask(shrink_mask(locked_minirows(shrink) \cap column_single(possible_columns)))
      \cap possible_cells

update_subband_solved(self, subband, possible_cells, nonconflicting_neighbours, nb, solved_cells) ==
    [self EXCEPT
        !.prev_possible_cells[subband] = possible_cells,
        !.unsolved_cells[subband % 3] = @ \cap Not(solved_cells),
        !.possible_cells =
            clear_in_band(
                [@ EXCEPT ![subband] = possible_cells,
                          ![nb[1]] = @ \cap nonconflicting_neighbours,
                          ![nb[2]] = @ \cap nonconflicting_neighbours],
                subband % 3, solved_cells, subband)]

update_subband_columns(self, subband, shrink, possible_cells, possible_columns) ==
    update_subband_solved(self, subband, possible_cells,
        nonconflicting_cells_neighbour_bands_by_locked_candidates(possible_columns),
        neighbour_subbands(subband),
        solved_cells_of(shrink, possible_cells, possible_columns))

update_subband_possible(self, subband, shrink, possible_cells) ==
    IF possible_cells = NONE THEN Err(self)
    ELSE Ok(update_subband_columns(self, subband, shrink, possible_cells,
                ((possible_cells \cup Shr(possible_cells, 9))
                   \cup Shr(possible_cells, 18)) \cap LOW9))

update_subband_shrink(self, subband, shrink) ==
    update_subband_possible(self, subband, shrink,
        self.possible_cells[subband]
          \cap nonconflicting_cells_same_band_by_locked_candidates(shrink))

find_locked_candidates_and_update_subband(self, subband) ==
    update_subband_shrink(self, subband,
        locked_candidates_shrink(self.possible_cells[subband]))

\* One pass over the subbands lo .. hi - 1, walked by halves
RECURSIVE update_subbands(_, _, _, _)

update_subband_found(r) == [ok |-> r.ok, self |-> r.self, found_nothing |-> FALSE]

update_subbands_rest(r, lo, hi) ==
    IF r.ok THEN update_subbands(r.self, lo, hi, r.found_nothing) ELSE r

update_subbands(self, lo, hi, found_nothing) ==
    IF hi - lo = 1
    THEN IF self.possible_cells[lo] # self.prev_possible_cells[lo]
         THEN update_subband_found(find_locked_candidates_and_update_subband(self, lo))
         ELSE [ok |-> TRUE, self |-> self, found_nothing |-> found_nothing]
    ELSE update_subbands_rest(update_subbands(self, lo, (lo + hi) \div 2, found_nothing),
             (lo + hi) \div 2, hi)

RECURSIVE find_locked_candidates_and_update(_)

find_locked_candidates_after_pass(r) ==
    IF ~r.ok THEN Err(r.self)
    ELSE IF r.found_nothing THEN Ok(r.self)
    ELSE find_locked_candidates_and_update(r.self)

find_locked_candidates_and_update(self) ==
    find_locked_candidates_after_pass(update_subbands(self, 0, N_SUBBANDS, TRUE))

\* enum Solutions: Count(usize) or Keep(&mut Vec<Sudoku>)
Solutions_Count(value) == [keep |-> FALSE, count |-> value, sols |-> <<>>]
Solutions_Keep(sols) == [keep |-> TRUE, count |-> 0, sols |-> sols]

Solutions_len(solutions) ==
    IF solutions.keep THEN Len(solutions.sols) ELSE solutions.count

RECURSIVE solve_loop(_)

solve_after_singles(f) ==
    IF ~f.ok THEN Err(f.self)
    ELSE IF f.applied THEN solve_loop(f.self)
    ELSE Ok(f.self)

solve_after_locked(l) ==
    IF ~l.ok THEN l
    ELSE IF is_solved(l.self) THEN l
    ELSE solve_after_singles(find_naked_singles(l.self))

solve_loop(self) == solve_after_locked(find_locked_candidates_and_update(self))

\* solve that searches on when the solution limit is reached
solve_past_limit(self, limit, solutions) == solve_loop(self)

solve(self, limit, solutions) ==
    IF Solutions_len(solutions) >= limit THEN Err(self) ELSE solve_loop(self)

\* extract_solution writing digit where the code writes digit + 1
extract_solution_unshifted(self) ==
    [cell \in Cells |->
        Max({0} \cup {d \in 0..(N_DIGITS - 1) :
                        (cell % 27) \in self.possible_cells[3 * d + cell \div 27]})]
      @@ <<>>

\* extract_solution: every subband writes its digit into the cells of its
\* mask, so a cell ends with the digit of the last subband that holds it and
\* a cell of no mask stays 0
extract_solution(self) ==
    [cell \in Cells |->
        Max({0} \cup {digit + 1 : digit \in
                        {d \in 0..(N_DIGITS - 1) :
                            (cell % 27) \in self.possible_cells[3 * d + cell \div 27]}})]
      @@ <<>>

\* store_solution recording every solution twice
store_solution_twice(self, solutions) ==
    IF solutions.keep
    THEN [solutions EXCEPT
             !.sols = Append(Append(@, extract_solution(self)), extract_solution(self))]
    ELSE [solutions EXCEPT !.count = @ + 2]

store_solution(self, solutions) ==
    IF solutions.keep
    THEN [solutions EXCEPT !.sols = Append(@, extract_solution(self))]
    ELSE [solutions EXCEPT !.count = @ + 1]

RECURSIVE guess(_, _, _)

guess_if_ok(r, limit, solutions) ==
    IF r.ok THEN guess(r.self, limit, solutions) ELSE solutions

\* A branch of a guess: place, solve and, if that did not fail, guess on.
\* The result is the solutions afterwards.
guess_branch(self, subband, cell_mask, limit, solutions) ==
    guess_if_ok(solve(insert_value_by_mask(self, subband, cell_mask), limit, solutions),
        limit, solutions)

\* The subbands band, band + 3, ... in which a cell is possible, ascending
possible_subbands(self, band, cell_mask) ==
    SetToSeq({subband \in {3 * digit + band : digit \in 0..(N_DIGITS - 1)} :
                self.possible_cells[subband] \cap cell_mask # NONE})

\* guess_bivalue that leaves out the second candidate of the cell
guess_bivalue_cell_first_only(self, limit, solutions, cell_mask, subbands) ==
    [ok |-> FALSE,
     solutions |-> guess_branch(self, subbands[1], cell_mask, limit, solutions)]

\* The first candidate of a bivalue cell is tried on a clone, the second on
\* the solver itself. The loop over the subbands has no end of its own; it
\* returns at the second candidate.
guess_bivalue_cell(self, limit, solutions, cell_mask, subbands) ==
    [ok |-> FALSE,
     solutions |-> guess_branch(self, subbands[2], cell_mask, limit,
                       guess_branch(self, subbands[1], cell_mask, limit, solutions))]

guess_bivalue_in(self, limit, solutions, band, cell_mask) ==
    guess_bivalue_cell(self, limit, solutions, cell_mask,
        possible_subbands(self, band, cell_mask))

\* The first band with a bivalue cell decides
guess_bivalue_bands(self, limit, solutions, bands) ==
    IF bands = {} THEN [ok |-> TRUE, solutions |-> solutions]
    ELSE guess_bivalue_in(self, limit, solutions, Min(bands),
             MaskIter_peek(self.bivalue_cells[Min(bands)])[1])

guess_bivalue(self, limit, solutions) ==
    guess_bivalue_bands(self, limit, solutions,
        {band \in 0..(N_BANDS - 1) : self.bivalue_cells[band] # NONE})

\* The (n_candidates, band, one_unsolved_cell) of the bands with an unsolved cell
best_guesses(self) ==
    {<<Len(possible_subbands(self, band, {Min(self.unsolved_cells[band])})),
       band, {Min(self.unsolved_cells[band])}>> :
        band \in {b \in 0..(N_BANDS - 1) : self.unsolved_cells[b] # NONE}}

\* Iterator::min over tuples that differ in their band
min_guess(guesses) ==
    CHOOSE g \in guesses :
        \A h \in guesses : g[1] < h[1] \/ (g[1] = h[1] /\ g[2] <= h[2])

\* The candidates of the chosen cell tried in order: the first count - 1 on
\* a clone, the next on the solver itself, which ends the loop
RECURSIVE guess_some_cell_digits(_, _, _, _, _, _, _)

guess_some_cell_checked(self, limit, after, count, subbands, unsolved_cell, checked) ==
    IF checked < count - 1
    THEN guess_some_cell_digits(self, limit, after, count, subbands,
             unsolved_cell, checked + 1)
    ELSE after

guess_some_cell_digits(self, limit, solutions, count, subbands, unsolved_cell, checked) ==
    guess_some_cell_checked(self, limit,
        guess_branch(self, subbands[checked + 1], unsolved_cell, limit, solutions),
        count, subbands, unsolved_cell, checked)

guess_some_cell_best(self, limit, solutions, guesses) ==
    IF guesses = {} THEN solutions
    ELSE guess_some_cell_digits(self, limit, solutions, min_guess(guesses)[1],
             possible_subbands(self, min_guess(guesses)[2], min_guess(guesses)[3]),
             min_guess(guesses)[3], 0)

guess_some_cell(self, limit, solutions) ==
    guess_some_cell_best(self, limit, solutions, best_guesses(self))

guess_after_bivalue(self, limit, b) ==
    IF b.ok THEN guess_some_cell(self, limit, b.solutions) ELSE b.solutions

guess(self, limit, solutions) ==
    IF is_solved(self) THEN store_solution(self, solutions)
    ELSE guess_after_bivalue(self, limit, guess_bivalue(self, limit, solutions))

solutions_after_singles(f, limit, solutions) ==
    IF f.ok THEN guess_if_ok(solve(f.self, limit, solutions), limit, solutions)
    ELSE solutions

solutions_up_to(self, limit, solutions) ==
    solutions_after_singles(find_naked_singles(self), limit, solutions)

all_solutions_up_to(self, limit) ==
    solutions_up_to(self, limit, Solutions_Keep(<<>>)).sols

count_solutions_up_to(self, limit) ==
    Solutions_len(solutions_up_to(self, limit, Solutions_Count(0)))

\* Result::map over from_sudoku: the count up to a limit, if the clues could
\* be inserted
count_if_inserted(r, limit) ==
    IF r.ok THEN <<count_solutions_up_to(r.self, limit)>> ELSE <<>>

is_one(option) == IF option # <<>> THEN <<option[1] = 1>> ELSE <<>>

has_solution(sudoku) ==
    unwrap_or(is_one(count_if_inserted(from_sudoku(sudoku), 1)), FALSE)

has_unique_solution(sudoku) ==
    unwrap_or(is_one(count_if_inserted(from_sudoku(sudoku), 2)), FALSE)

count_solutions(sudoku) ==
    unwrap_or(count_if_inserted(from_sudoku(sudoku), usize_MAX), 0)

-----------------------------------------------------------------------------
(* The solver queries over a family of input grids.                        *)

\* The number of single cells the checked grids may have blanked on their own
MaxSingles == 2

\* The largest limit given to count_solutions_up_to
MaxLimit == 3

\* A solved grid
SolvedDigits == <<
    1, 6, 9, 2, 4, 5, 3, 8, 7,
    5, 3, 7, 6, 9, 8, 4, 2, 1,
    8, 2, 4, 7, 1, 3, 9, 6, 5,
    2, 7, 8, 3, 6, 4, 1, 5, 9,
    4, 9, 3, 8, 5, 1, 6, 7, 2,
    6, 1, 5, 9, 2, 7, 8, 3, 4,
    3, 5, 6, 1, 7, 9, 2, 4, 8,
    9, 4, 2, 5, 8, 6, 7, 1, 3,
    7, 8, 1, 4, 3, 2, 5, 9, 6
>>

SolvedGrid == [idx \in Cells |-> SolvedDigits[idx + 1]]

\* Cell sets to blank: every cell holding 7, 8 or 9 (no cell is then left
\* with fewer than three candidates), a rectangle whose two digits can be
\* swapped, cells that leave a single completion, and single cells
DigitCells == {idx \in Cells : SolvedGrid[idx] \in {7, 8, 9}}
RectangleCells == {19, 20, 64, 65}
SparseCells == {1, 5, 9, 12, 17, 22, 25, 30, 32, 34, 44, 45, 46, 47, 52, 56, 57, 60, 61, 76, 77}
SingleCells == <<40, 13, 70, 4>>

BlankPatterns ==
    {{}, RectangleCells, DigitCells, SparseCells,
     SparseCells \cup RectangleCells, DigitCells \cup RectangleCells}

\* Changes to the clues: none; a second 1 in the first row; a 3 at cell 0
\* that conflicts with no clue but leaves cell 6 without a digit
ClueChanges ==
    {[blank |-> {}, set |-> {}],
     [blank |-> {}, set |-> {<<1, 1>>}],
     [blank |-> {6, 10, 54}, set |-> {<<0, 3>>}]}

InputGrid(blank, change) ==
    [idx \in Cells |->
        IF \E s \in change.set : s[1] = idx
        THEN (CHOOSE s \in change.set : s[1] = idx)[2]
        ELSE IF idx \in blank \cup change.blank THEN 0
        ELSE SolvedGrid[idx]]

InputGrids ==
    {InputGrid(pattern \cup singles, change) :
        pattern \in BlankPatterns,
        singles \in SUBSET {SingleCells[i] : i \in 1..MaxSingles},
        change \in ClueChanges}

InitSolver ==
    /\ \E sudoku \in InputGrids : input = [kind |-> "solver", sudoku |-> sudoku]
    /\ verdict = <<>>
    /\ state = [kind |-> "none"]
    /\ levels = <<>>
    /\ progress = RatZero
    /\ pc = "idle"
    /\ ret = "start"
    /\ last = <<>>
    /\ emitted = <<>>
    /\ calls = 0

HasSolution ==
    /\ input.kind = "solver" /\ verdict = <<>>
    /\ verdict' = <<[query |-> "has_solution",
                     result |-> has_solution(input.sudoku)]>>
    /\ UNCHANGED <<state, levels, progress, pc, ret, last, emitted, calls, input>>

HasUniqueSolution ==
    /\ input.kind = "solver" /\ verdict = <<>>
    /\ verdict' = <<[query |-> "has_unique_solution",
                     result |-> has_unique_solution(input.sudoku)]>>
    /\ UNCHANGED <<state, levels, progress, pc, ret, last, emitted, calls, input>>

CountSolutions ==
    /\ input.kind = "solver" /\ verdict = <<>>
    /\ verdict' = <<[query |-> "count_solutions",
                     result |-> count_solutions(input.sudoku)]>>
    /\ UNCHANGED <<state, levels, progress, pc, ret, last, emitted, calls, input>>

\* count_solutions_up_to on the solver of the input grid, for a small limit
CountSolutionsUpTo ==
    /\ input.kind = "solver" /\ verdict = <<>>
    /\ \E limit \in 0..MaxLimit :
         verdict' = <<[query |-> "count_solutions_up_to", limit |-> limit,
                       result |-> count_if_inserted(from_sudoku(input.sudoku), limit)]>>
    /\ UNCHANGED <<state, levels, progress, pc, ret, last, emitted, calls, input>>

NextSolver ==
    HasSolution \/ HasUniqueSolution \/ CountSolutions \/ CountSolutionsUpTo

SpecSolver == InitSolver /\ [][NextSolver]_vars

\* The completions of a grid, counted by filling at once every blank cell
\* with a single free digit and otherwise branching on a blank cell with the
\* fewest free digits
HouseCells(a) ==
    ({9 * (a \div 9) + i : i \in 0..8} \cup {9 * i + (a % 9) : i \in 0..8})
      \cup {27 * (a \div 27) + 3 * ((a % 9) \div 3) + 9 * i + j : i \in 0..2, j \in 0..2}

GivensConsistent(g) ==
    \A a \in Cells : g[a] # 0 => \A b \in HouseCells(a) \ {a} : g[b] # g[a]

\* The digits free for a blank cell
FreeDigits(g, a) == ALL_DIGITS \ {g[b] : b \in HouseCells(a)}

\* The number of free digits of every blank cell; 10 for a filled cell
FreeCounts(g) ==
    [a \in Cells |-> IF g[a] = 0 THEN Cardinality(FreeDigits(g, a)) ELSE 10] @@ <<>>

RECURSIVE CompletionsFrom(_)
RECURSIVE CompletionsWith(_, _, _)
CompletionsWith(g, a, digits) ==
    IF digits = {} THEN 0
    ELSE LET d == CHOOSE x \in digits : TRUE
         IN  CompletionsFrom([g EXCEPT ![a] = d]) + CompletionsWith(g, a, digits \ {d})

CompletionsIfConsistent(g) == IF GivensConsistent(g) THEN CompletionsFrom(g) ELSE 0

CompletionsAt(g, free, k) ==
    IF k = 10 THEN 1
    ELSE IF k = 0 THEN 0
    ELSE IF k = 1
    THEN CompletionsIfConsistent(
             [a \in Cells |-> IF free[a] = 1 THEN CHOOSE d \in FreeDigits(g, a) : TRUE
                              ELSE g[a]] @@ <<>>)
    ELSE LET a == CHOOSE x \in Cells : free[x] = k
         IN  CompletionsWith(g, a, FreeDigits(g, a))

CompletionsBy(g, free) == CompletionsAt(g, free, Min({free[a] : a \in Cells}))

CompletionsFrom(g) == CompletionsBy(g, FreeCounts(g))

Completions(g) == IF GivensConsistent(g) THEN CompletionsFrom(g) ELSE 0

\* C9: has_solution answers true exactly for the grids with at least one
\* completion, and count_solutions answers 0 exactly for the grids with none.
C9_HasSolutionIffCompletion ==
    (input.kind = "solver" /\ verdict # <<>>) =>
        /\ verdict[1].query = "has_solution" =>
               (verdict[1].result <=> Completions(input.sudoku) >= 1)
        /\ verdict[1].query = "count_solutions" =>
               (verdict[1].result = 0 <=> Completions(input.sudoku) = 0)

\* C9 witness: has_solution has answered true for a grid with more than one
\* completion.
C9_Witness ==
    /\ input.kind = "solver" /\ verdict # <<>>
    /\ verdict[1].query = "has_solution" /\ verdict[1].result
    /\ Completions(input.sudoku) > 1

\* C10: has_unique_solution answers true exactly for the grids with exactly
\* one completion; for a solved grid it answers true and count_solutions
\* answers 1.
C10_UniqueIffOneCompletion ==
    (input.kind = "solver" /\ verdict # <<>>) =>
        /\ verdict[1].query = "has_unique_solution" =>
               (verdict[1].result <=> Completions(input.sudoku) = 1)
        /\ input.sudoku = SolvedGrid =>
               /\ verdict[1].query = "has_unique_solution" => verdict[1].result
               /\ verdict[1].query = "count_solutions" => verdict[1].result = 1

\* C10 witness: has_unique_solution has answered false for a grid with two
\* completions.
C10_Witness ==
    /\ input.kind = "solver" /\ verdict # <<>>
    /\ verdict[1].query = "has_unique_solution" /\ ~verdict[1].result
    /\ Completions(input.sudoku) = 2

\* C11: count_solutions_up_to(k) on a grid with N completions returns
\* min(k, N): the count never passes the limit and no solution is lost
\* below it.
C11_CountUpToIsMin ==
    (verdict # <<>> /\ verdict[1].query = "count_solutions_up_to"
        /\ verdict[1].result # <<>>) =>
        LET N == Completions(input.sudoku)
            k == verdict[1].limit
        IN  verdict[1].result[1] = IF k <= N THEN k ELSE N

\* C11 witness: a grid with more completions than the limit 2 was counted
\* up to 2, and the count is 2.
C11_Witness ==
    /\ verdict # <<>> /\ verdict[1].query = "count_solutions_up_to"
    /\ verdict[1].limit = 2 /\ verdict[1].result = <<2>>
    /\ Completions(input.sudoku) > 2

\* all_solutions_up_to on the solver of the input grid, for a small limit
AllSolutionsUpTo ==
    /\ input.kind = "solver" /\ verdict = <<>>
    /\ \E limit \in 0..MaxLimit :
         verdict' = <<[query |-> "all_solutions_up_to", limit |-> limit,
                       inserted |-> from_sudoku(input.sudoku).ok,
                       result |-> IF from_sudoku(input.sudoku).ok
                                  THEN all_solutions_up_to(from_sudoku(input.sudoku).self, limit)
                                  ELSE <<>>]>>
    /\ UNCHANGED <<state, levels, progress, pc, ret, last, emitted, calls, input>>

NextSolutions == AllSolutionsUpTo

SpecSolutions == InitSolver /\ [][NextSolutions]_vars

\* A complete grid with every digit once in every row, column and box
ValidGrid(g) ==
    /\ \A a \in Cells : g[a] \in ALL_DIGITS
    /\ \A a \in Cells : \A b \in HouseCells(a) \ {a} : g[b] # g[a]

AgreesWith(g, sudoku) == \A a \in Cells : sudoku[a] # 0 => g[a] = sudoku[a]

\* C33: every solution the search records is a complete valid grid that
\* agrees with the clues of the input, no solution is recorded twice, and
\* the counting search records as many solutions as the collecting one.
C33_RecordedSolutionsValid ==
    (verdict # <<>> /\ verdict[1].query = "all_solutions_up_to") =>
        /\ \A i \in 1..Len(verdict[1].result) :
              /\ ValidGrid(verdict[1].result[i])
              /\ AgreesWith(verdict[1].result[i], input.sudoku)
              /\ \A j \in 1..Len(verdict[1].result) :
                    verdict[1].result[i] = verdict[1].result[j] => i = j
        /\ verdict[1].inserted =>
              Len(verdict[1].result)
                = count_solutions_up_to(from_sudoku(input.sudoku).self, verdict[1].limit)

\* C33 witness: three solutions of a grid with blank cells were collected.
C33_Witness ==
    /\ verdict # <<>> /\ verdict[1].query = "all_solutions_up_to"
    /\ Len(verdict[1].result) = 3
    /\ \E a \in Cells : input.sudoku[a] = 0

\* Clues that repeat the 1 of cell 0 in its row alone, in its box alone, and
\* in its column alone in each of the two other bands; and no change
ConflictChanges ==
    {[blank |-> {}, set |-> {}],
     [blank |-> {17}, set |-> {<<8, 1>>}],
     [blank |-> {17, 46}, set |-> {<<10, 1>>}],
     [blank |-> {33, 46}, set |-> {<<27, 1>>}],
     [blank |-> {74}, set |-> {<<72, 1>>}]}

ConflictGrids ==
    {InputGrid(pattern \cup singles, change) :
        pattern \in BlankPatterns,
        singles \in SUBSET {SingleCells[i] : i \in 1..MaxSingles},
        change \in ConflictChanges}

InitConflict ==
    /\ \E sudoku \in ConflictGrids : input = [kind |-> "solver", sudoku |-> sudoku]
    /\ verdict = <<>>
    /\ state = [kind |-> "none"]
    /\ levels = <<>>
    /\ progress = RatZero
    /\ pc = "idle"
    /\ ret = "start"
    /\ last = <<>>
    /\ emitted = <<>>
    /\ calls = 0

NextConflict ==
    HasSolution \/ HasUniqueSolution \/ CountSolutions \/ CountSolutionsUpTo

SpecConflict == InitConflict /\ [][NextConflict]_vars

\* C34: for a grid with the same digit twice in a row, a column or a box
\* from_sudoku fails while inserting the clues, has_solution and
\* has_unique_solution answer false, count_solutions answers 0 and the
\* count up to a limit is never started.
C34_DuplicateClueUnsolvable ==
    (input.kind = "solver" /\ ~GivensConsistent(input.sudoku)) =>
        /\ ~from_sudoku(input.sudoku).ok
        /\ verdict # <<>> =>
              /\ verdict[1].query = "has_solution" => ~verdict[1].result
              /\ verdict[1].query = "has_unique_solution" => ~verdict[1].result
              /\ verdict[1].query = "count_solutions" => verdict[1].result = 0
              /\ verdict[1].query = "count_solutions_up_to" => verdict[1].result = <<>>

\* C34 witness: count_solutions has answered 0 for a grid whose only
\* repeated digit is the 1 of cells 0 and 72, in one column and two bands.
C34_Witness ==
    /\ input.kind = "solver" /\ verdict # <<>>
    /\ verdict[1].query = "count_solutions" /\ verdict[1].result = 0
    /\ input.sudoku[0] = 1 /\ input.sudoku[72] = 1 /\ input.sudoku[74] = 0

-----------------------------------------------------------------------------
(* BasicSolver (logic.rs): naked and hidden singles, pointing and claiming, *)
(* naked and hidden subsets. A candidate mask is the set of its digits.     *)
(* The region tables ROWS, COLS, BOXES, PEERS and Sukaku::from_sudoku are   *)
(* those the specification describes.                                       *)

\* A mask or cell set held by value: the set with its elements listed
Held(S) == {x : x \in S}

\* The cells of each region in canonical order
ROWS == [r \in 0..8 |-> [k \in 1..9 |-> 9 * r + (k - 1)]]
COLS == [c \in 0..8 |-> [k \in 1..9 |-> 9 * (k - 1) + c]]
BOXES ==
    [b \in 0..8 |->
        [k \in 1..9 |->
            27 * (b \div 3) + 3 * (b % 3) + 9 * ((k - 1) \div 3) + ((k - 1) % 3)]]

\* The 20 cells sharing a row, column or box with idx
PEERS(idx) ==
    (Range(ROWS[ROW_INDICES(idx)]) \cup Range(COLS[COL_INDICES(idx)])
        \cup Range(BOXES[BOX_INDICES(idx)])) \ {idx}

\* A clue is its digit alone, an empty cell every digit
Sukaku_from_sudoku(sudoku) ==
    [idx \in Cells |-> IF sudoku[idx] # 0 THEN {sudoku[idx]} ELSE ALL_DIGITS]

for_sukaku(sukaku) ==
    [sukaku |-> sukaku, placed |-> {}, placed_count |-> 0,
     missing_from_rows |-> [r \in 0..8 |-> ALL_DIGITS],
     missing_from_cols |-> [c \in 0..8 |-> ALL_DIGITS],
     missing_from_boxes |-> [b \in 0..8 |-> ALL_DIGITS]]

for_sudoku(sudoku) == for_sukaku(Sukaku_from_sudoku(sudoku))

BasicSolver_is_solved(self) == self.placed_count = 81

\* place clearing the digit from the row and column peers only
BasicSolver_place_skip_box(self, idx, mask) ==
    [self EXCEPT
        !.sukaku = [jdx \in Cells |->
                      IF jdx = idx THEN Held(mask)
                      ELSE IF jdx \in PEERS(idx) /\ BOX_INDICES(jdx) # BOX_INDICES(idx)
                      THEN Held(self.sukaku[jdx] \ mask)
                      ELSE self.sukaku[jdx]] @@ <<>>,
        !.placed = Held(@ \cup {idx}),
        !.placed_count = @ + 1,
        !.missing_from_rows[ROW_INDICES(idx)] = Held(Xor(@, mask)),
        !.missing_from_cols[COL_INDICES(idx)] = Held(Xor(@, mask)),
        !.missing_from_boxes[BOX_INDICES(idx)] = Held(Xor(@, mask))]

\* place leaving the column's missing-digits mask as it was
BasicSolver_place_col_kept(self, idx, mask) ==
    [self EXCEPT
        !.sukaku = [jdx \in Cells |->
                      IF jdx = idx THEN Held(mask)
                      ELSE IF jdx \in PEERS(idx) THEN Held(self.sukaku[jdx] \ mask)
                      ELSE self.sukaku[jdx]] @@ <<>>,
        !.placed = Held(@ \cup {idx}),
        !.placed_count = @ + 1,
        !.missing_from_rows[ROW_INDICES(idx)] = Held(Xor(@, mask)),
        !.missing_from_boxes[BOX_INDICES(idx)] = Held(Xor(@, mask))]

BasicSolver_place(self, idx, mask) ==
    [self EXCEPT
        !.sukaku = [jdx \in Cells |->
                      IF jdx = idx THEN Held(mask)
                      ELSE IF jdx \in PEERS(idx) THEN Held(self.sukaku[jdx] \ mask)
                      ELSE self.sukaku[jdx]] @@ <<>>,
        !.placed = Held(@ \cup {idx}),
        !.placed_count = @ + 1,
        !.missing_from_rows[ROW_INDICES(idx)] = Held(Xor(@, mask)),
        !.missing_from_cols[COL_INDICES(idx)] = Held(Xor(@, mask)),
        !.missing_from_boxes[BOX_INDICES(idx)] = Held(Xor(@, mask))]

\* eliminate on every cell of a set at once: the solver and whether any
\* cell changed
eliminate_all(self, cells, mask) ==
    [self |-> [self EXCEPT
                 !.sukaku = [idx \in Cells |->
                               IF idx \in cells THEN Held(self.sukaku[idx] \ mask)
                               ELSE self.sukaku[idx]] @@ <<>>],
     changed |-> \E idx \in cells : self.sukaku[idx] \cap mask # {}]

\* The running value of a rule's loop: the solver, made_progress, and
\* whether the rule has returned None
Going(self, made_progress) ==
    [self |-> self, made_progress |-> made_progress, none |-> FALSE]

Stopped(acc) == [acc EXCEPT !.none = TRUE]

\* The body of the loop of do_naked_singles
do_naked_singles_cell(acc, idx) ==
    IF acc.none \/ idx \in acc.self.placed THEN acc
    ELSE IF Cardinality(acc.self.sukaku[idx]) = 0 THEN Stopped(acc)
    ELSE IF Cardinality(acc.self.sukaku[idx]) = 1
    THEN Going(BasicSolver_place(acc.self, idx, acc.self.sukaku[idx]), TRUE)
    ELSE acc

\* The loop of do_naked_singles over the cells lo..hi, walked by halves
RECURSIVE do_naked_singles_range(_, _, _)
do_naked_singles_range(acc, lo, hi) ==
    IF acc.none THEN acc
    ELSE IF lo = hi THEN do_naked_singles_cell(acc, lo)
    ELSE do_naked_singles_range(
             do_naked_singles_range(acc, lo, (lo + hi) \div 2),
             (lo + hi) \div 2 + 1, hi)

do_naked_singles(self) == do_naked_singles_range(Going(self, FALSE), 0, 80)

\* The regions of the k-th round of a rule: rows, then columns, then boxes
Regions(kind) == CASE kind = 0 -> ROWS [] kind = 1 -> COLS [] kind = 2 -> BOXES

missing_from(self, kind) ==
    CASE kind = 0 -> self.missing_from_rows
      [] kind = 1 -> self.missing_from_cols
      [] kind = 2 -> self.missing_from_boxes

\* The placing loop of do_hidden_singles over the cells of one region,
\* from its k-th cell on
RECURSIVE do_hidden_singles_cells(_, _, _, _)
do_hidden_singles_cells(acc, region, exactly_once, k) ==
    IF k > Len(region) \/ acc.none THEN acc
    ELSE do_hidden_singles_cells(
             IF Cardinality(acc.self.sukaku[region[k]] \cap exactly_once) = 0
             THEN acc
             ELSE IF Cardinality(acc.self.sukaku[region[k]] \cap exactly_once) = 1
             THEN Going(BasicSolver_place(acc.self, region[k],
                            acc.self.sukaku[region[k]] \cap exactly_once), TRUE)
             ELSE Stopped(acc),
             region, exactly_once, k + 1)

\* The digits that some unplaced cell of the region holds, and those that
\* two or more of them hold
at_least_once_in(self, region) ==
    Held(UNION {self.sukaku[idx] : idx \in Range(region) \ self.placed})

more_than_once_in(self, region) ==
    {d \in ALL_DIGITS :
        \E idx, jdx \in Range(region) \ self.placed :
            idx # jdx /\ d \in self.sukaku[idx] /\ d \in self.sukaku[jdx]}

do_hidden_singles_scanned(acc, region, missing, at_least_once, more_than_once) ==
    IF at_least_once # missing THEN Stopped(acc)
    ELSE IF at_least_once \ more_than_once # {}
    THEN do_hidden_singles_cells(acc, region, at_least_once \ more_than_once, 1)
    ELSE acc

\* do_hidden_singles in the k-th of the 27 regions
do_hidden_singles_region(acc, k) ==
    IF acc.none THEN acc
    ELSE do_hidden_singles_scanned(acc, Regions(k \div 9)[k % 9],
             missing_from(acc.self, k \div 9)[k % 9],
             at_least_once_in(acc.self, Regions(k \div 9)[k % 9]),
             more_than_once_in(acc.self, Regions(k \div 9)[k % 9]))

RECURSIVE do_hidden_singles_range(_, _, _)
do_hidden_singles_range(acc, lo, hi) ==
    IF acc.none THEN acc
    ELSE IF lo = hi THEN do_hidden_singles_region(acc, lo)
    ELSE do_hidden_singles_range(
             do_hidden_singles_range(acc, lo, (lo + hi) \div 2),
             (lo + hi) \div 2 + 1, hi)

do_hidden_singles(self) == do_hidden_singles_range(Going(self, FALSE), 0, 26)

\* ROW_INDICES, COL_INDICES or BOX_INDICES by kind of region
region_index(kind, idx) ==
    CASE kind = 0 -> ROW_INDICES(idx)
      [] kind = 1 -> COL_INDICES(idx)
      [] kind = 2 -> BOX_INDICES(idx)

\* The four rounds of do_intersections: (rows, boxes), (columns, boxes),
\* (boxes, rows), (boxes, columns)
LeftKinds == <<0, 1, 2, 2>>
RightKinds == <<2, 2, 0, 1>>

\* made_progress |= eliminate(..) over the cells of one elimination
after_eliminate(acc, e) == Going(e.self, acc.made_progress \/ e.changed)

\* all_equal_value() of the right regions of the cells that hold the digit
do_intersections_aligned(acc, left_kind, right_kind, left_idx, d, rights) ==
    IF Cardinality(rights) = 1
    THEN after_eliminate(acc,
             eliminate_all(acc.self,
                 {idx \in Range(Regions(right_kind)[CHOOSE r \in rights : TRUE]) :
                     region_index(left_kind, idx) # left_idx},
                 {d}))
    ELSE acc

\* One digit of one left region in one round
do_intersections_digit(acc, left_kind, right_kind, left_idx, d) ==
    IF d \notin missing_from(acc.self, left_kind)[left_idx] THEN acc
    ELSE do_intersections_aligned(acc, left_kind, right_kind, left_idx, d,
             {region_index(right_kind, idx) :
                 idx \in {jdx \in Range(Regions(left_kind)[left_idx]) :
                             d \in acc.self.sukaku[jdx]}})

\* The loops of do_intersections flattened to round, left region and digit,
\* walked by halves
RECURSIVE do_intersections_range(_, _, _)
do_intersections_range(acc, lo, hi) ==
    IF acc.none THEN acc
    ELSE IF lo = hi
    THEN do_intersections_digit(acc, LeftKinds[lo \div 81 + 1],
             RightKinds[lo \div 81 + 1], (lo % 81) \div 9, (lo % 9) + 1)
    ELSE do_intersections_range(
             do_intersections_range(acc, lo, (lo + hi) \div 2),
             (lo + hi) \div 2 + 1, hi)

do_intersections(self) == do_intersections_range(Going(self, FALSE), 0, 323)

\* The inner while loop of do_subsets that pops the indices at their last
\* position, and their masks
RECURSIVE do_subsets_pop(_, _, _, _)
do_subsets_pop(indices, masks, n, sz) ==
    IF Len(indices) > 0 /\ Last(indices) = n - (sz + 1 - Len(indices))
    THEN do_subsets_pop(Front(indices), Front(masks), n, sz)
    ELSE [indices |-> indices, masks |-> masks]

\* The loops of do_subsets that push indices up to sz of them, each mask
\* the one below it joined with the candidates of the new cell
RECURSIVE do_subsets_push(_, _, _, _, _)
do_subsets_push(self, indices, masks, unsolved_cells, sz) ==
    IF Len(indices) < sz
    THEN do_subsets_push(self, Append(indices, Last(indices) + 1),
             Append(masks,
                    Held(Last(masks) \cup self.sukaku[unsolved_cells[Last(indices) + 2]])),
             unsolved_cells, sz)
    ELSE [indices |-> indices, masks |-> masks]

\* The state of the loop of do_subsets
SubsetLoop(self, made_progress, stacks, done) ==
    [self |-> self, made_progress |-> made_progress,
     indices |-> stacks.indices, masks |-> stacks.masks, done |-> done]

\* The eliminations of one iteration: the top mask, if it has sz digits,
\* leaves every unsolved cell that has a candidate outside it
\* do_subsets_eliminate taking the mask from the cells of the subset too
do_subsets_eliminate_within(st, unsolved_cells, sz, mask) ==
    IF Cardinality(mask) = sz
    THEN after_eliminate(st, eliminate_all(st.self, Range(unsolved_cells), mask))
    ELSE Going(st.self, st.made_progress)

do_subsets_eliminate(st, unsolved_cells, sz, mask) ==
    IF Cardinality(mask) = sz
    THEN after_eliminate(st,
             eliminate_all(st.self,
                 {idx \in Range(unsolved_cells) : st.self.sukaku[idx] \ mask # {}},
                 mask))
    ELSE Going(st.self, st.made_progress)

\* The move to the next indices after the pop: the last index is raised by
\* one (its mask stays as it was) and the stacks are filled up again
do_subsets_advance(acc, popped, unsolved_cells, sz) ==
    IF Len(popped.indices) > 0
    THEN SubsetLoop(acc.self, acc.made_progress,
             do_subsets_push(acc.self,
                 [popped.indices EXCEPT ![Len(popped.indices)] = @ + 1],
                 popped.masks, unsolved_cells, sz),
             FALSE)
    ELSE SubsetLoop(acc.self, acc.made_progress, popped, TRUE)

do_subsets_iteration(st, unsolved_cells, sz) ==
    do_subsets_advance(
        do_subsets_eliminate(st, unsolved_cells, sz, Last(st.masks)),
        do_subsets_pop(st.indices, st.masks, Len(unsolved_cells), sz),
        unsolved_cells, sz)

\* At most n iterations of the loop, walked by halves; the loop ends
\* within 2^Len(unsolved_cells) iterations
RECURSIVE do_subsets_loop(_, _, _, _)
do_subsets_loop(st, unsolved_cells, sz, n) ==
    IF st.done THEN st
    ELSE IF n <= 1 THEN do_subsets_iteration(st, unsolved_cells, sz)
    ELSE do_subsets_loop(do_subsets_loop(st, unsolved_cells, sz, n \div 2),
                         unsolved_cells, sz, n - n \div 2)

\* One of the two sizes of a region: the first sz indices and masks, then
\* the loop
do_subsets_size(acc, unsolved_cells, sz) ==
    do_subsets_loop(
        SubsetLoop(acc.self, acc.made_progress,
            do_subsets_push(acc.self, <<0>>,
                <<acc.self.sukaku[unsolved_cells[1]]>>, unsolved_cells, sz),
            FALSE),
        unsolved_cells, sz, 2 ^ Len(unsolved_cells))

do_subsets_sizes(acc, unsolved_cells, sz) ==
    do_subsets_size(do_subsets_size(acc, unsolved_cells, sz),
                    unsolved_cells, Len(unsolved_cells) - sz)

\* The solver and made_progress a finished loop leaves
loop_result(st) == Going(st.self, st.made_progress)

unsolved_cells_of(self, region) ==
    SelectSeq(region, LAMBDA idx : idx \notin self.placed)

\* do_subsets in the k-th of the 27 regions
do_subsets_region(acc, k, sz) ==
    IF Cardinality(missing_from(acc.self, k \div 9)[k % 9]) < 2 * sz THEN acc
    ELSE loop_result(do_subsets_sizes(acc,
             unsolved_cells_of(acc.self, Regions(k \div 9)[k % 9]), sz))

RECURSIVE do_subsets_range(_, _, _, _)
do_subsets_range(acc, sz, lo, hi) ==
    IF acc.none THEN acc
    ELSE IF lo = hi THEN do_subsets_region(acc, lo, sz)
    ELSE do_subsets_range(do_subsets_range(acc, sz, lo, (lo + hi) \div 2),
                          sz, (lo + hi) \div 2 + 1, hi)

do_subsets(self, sz) == do_subsets_range(Going(self, FALSE), sz, 0, 26)

after_progress(acc, r) == Going(r.self, acc.made_progress \/ r.made_progress)

\* made_progress |= self.do_subsets(sz)
do_all_subsets_with(acc, sz) ==
    after_progress(acc, do_subsets(acc.self, sz))

do_all_subsets(self) ==
    do_all_subsets_with(do_all_subsets_with(do_all_subsets_with(Going(self, FALSE), 2), 3), 4)

\* step_basics: the Option<bool> it returns and the solver it leaves
Stepped(result, self) == [result |-> result, self |-> self]

step_basics_after_subsets(s) == Stepped(<<s.made_progress>>, s.self)

\* step_basics going on to the subsets whatever the intersections did
step_basics_after_intersections_unseen(i) ==
    step_basics_after_subsets(do_all_subsets(i.self))

step_basics_after_intersections(i) ==
    IF i.made_progress THEN Stepped(<<TRUE>>, i.self)
    ELSE step_basics_after_subsets(do_all_subsets(i.self))

step_basics_after_hidden_singles(h) ==
    IF h.none THEN Stepped(<<>>, h.self)
    ELSE IF h.made_progress THEN Stepped(<<TRUE>>, h.self)
    ELSE step_basics_after_intersections(do_intersections(h.self))

step_basics_after_naked_singles(n) ==
    IF n.none THEN Stepped(<<>>, n.self)
    ELSE IF n.made_progress THEN Stepped(<<TRUE>>, n.self)
    ELSE step_basics_after_hidden_singles(do_hidden_singles(n.self))

step_basics(self) == step_basics_after_naked_singles(do_naked_singles(self))

\* solve_basics leaving its loop after the first call of step_basics
solve_basics_once(self) == step_basics(self).self

\* solve_basics: step_basics while it returns Some(true)
RECURSIVE solve_basics(_)
solve_basics_after(r) ==
    IF r.result = <<TRUE>> THEN solve_basics(r.self) ELSE r.self

solve_basics(self) == solve_basics_after(step_basics(self))

-----------------------------------------------------------------------------
(* The basic solver on a family of puzzles.                                 *)

\* Cells to blank that lead the solver to a pointing or claiming step, and
\* to a naked or hidden subset
IntersectionCells == {0, 12, 15, 22, 27, 31, 37, 39, 45, 46, 47, 49, 51, 55, 56, 62, 65, 66, 71, 73, 74, 79, 80}
SubsetCells == {0, 1, 2, 3, 7, 11, 12, 14, 16, 19, 21, 23, 25, 26, 30, 32, 33, 35, 37, 38, 45, 48, 49, 50, 53, 59, 61, 65, 72, 79}

\* Cells to blank that leave the solver stuck with a pair in a column
\* neither of whose cells is the column's first unsolved cell
LatePairCells == {0, 1, 5, 7, 9, 10, 17, 18, 19, 20, 21, 23, 25, 26, 27, 28, 29, 30, 31, 32, 35, 37, 38, 41, 43, 45, 46, 48, 50, 52, 53, 57, 59, 60, 62, 65, 66, 67, 69, 70, 71, 77}

BasicPatterns == {{}, SparseCells, DigitCells, IntersectionCells, SubsetCells, LatePairCells}

\* Rows 0 and 3 exchanged: every row and column keeps its nine digits, the
\* boxes do not
RowsExchanged ==
    {<<c, SolvedGrid[27 + c]>> : c \in 0..8} \cup {<<27 + c, SolvedGrid[c]>> : c \in 0..8}

\* Changes to the clues: those of the brute-force solver's family, a
\* second 5 in the second row of a grid whose cell 0 is empty, and two rows
\* exchanged
BasicChanges ==
    ClueChanges \cup {[blank |-> {0}, set |-> {<<10, 5>>}],
                      [blank |-> {}, set |-> RowsExchanged]}

BasicInputs ==
    {InputGrid(pattern \cup singles, change) :
        pattern \in BasicPatterns,
        singles \in SUBSET {SingleCells[i] : i \in 1..MaxSingles},
        change \in BasicChanges}

InitBasic ==
    /\ \E sudoku \in BasicInputs :
         /\ input = [kind |-> "basic", sudoku |-> sudoku]
         /\ state = [kind |-> "basic", solver |-> for_sudoku(sudoku)]
    /\ verdict = <<>>
    /\ levels = <<>>
    /\ progress = RatZero
    /\ pc = "idle"
    /\ ret = "start"
    /\ last = <<>>
    /\ emitted = <<>>
    /\ calls = 0

step_basics_returned(r) ==
    /\ state' = [state EXCEPT !.solver = r.self]
    /\ verdict' = <<[query |-> "step_basics", result |-> r.result]>>

StepBasics ==
    /\ state.kind = "basic"
    /\ step_basics_returned(step_basics(state.solver))
    /\ UNCHANGED <<levels, progress, pc, ret, last, emitted, calls, input>>

SolveBasics ==
    /\ state.kind = "basic"
    /\ state' = [state EXCEPT !.solver = solve_basics(state.solver)]
    /\ verdict' = <<[query |-> "solve_basics", result |-> <<>>]>>
    /\ UNCHANGED <<levels, progress, pc, ret, last, emitted, calls, input>>

NextBasic == StepBasics \/ SolveBasics

SpecBasic == InitBasic /\ [][NextBasic]_vars

\* C12: solve_basics called a second time leaves the solver as the first
\* call left it, for solvable, stuck and contradictory puzzles alike.
C12_SolveBasicsIdempotent ==
    (state.kind = "basic" /\ verdict # <<>> /\ verdict[1].query = "solve_basics") =>
        solve_basics(state.solver) = state.solver

\* C13: when is_solved() holds, every cell holds exactly one digit, no two
\* peers hold the same digit, and every clue of the input kept its digit.
C13_SolvedIsValid ==
    (state.kind = "basic" /\ BasicSolver_is_solved(state.solver)) =>
        /\ \A idx \in Cells : Cardinality(state.solver.sukaku[idx]) = 1
        /\ \A idx \in Cells : \A jdx \in PEERS(idx) :
               state.solver.sukaku[idx] # state.solver.sukaku[jdx]
        /\ \A idx \in Cells :
               input.sudoku[idx] # 0 => state.solver.sukaku[idx] = {input.sudoku[idx]}

\* C13 witness: a puzzle with empty cells was solved by calls of
\* step_basics.
C13_Witness ==
    /\ state.kind = "basic" /\ BasicSolver_is_solved(state.solver)
    /\ verdict # <<>> /\ verdict[1].query = "step_basics"
    /\ \E idx \in Cells : input.sudoku[idx] = 0

\* A cell was placed or a candidate removed between two solvers
MadeProgress(before, after) ==
    \/ after.placed_count > before.placed_count
    \/ \E idx \in Cells : after.sukaku[idx] # before.sukaku[idx]

\* A contradiction holds: an unplaced cell without candidates, a region
\* whose unplaced cells do not hold exactly its missing digits, or a cell
\* that is the only place of its region for two digits
Contradiction(self) ==
    \/ \E idx \in Cells \ self.placed : self.sukaku[idx] = {}
    \/ \E k \in 0..26 :
         at_least_once_in(self, Regions(k \div 9)[k % 9])
             # missing_from(self, k \div 9)[k % 9]
    \/ \E k \in 0..26 : \E idx \in Range(Regions(k \div 9)[k % 9]) :
         Cardinality(self.sukaku[idx]
             \cap (at_least_once_in(self, Regions(k \div 9)[k % 9])
                     \ more_than_once_in(self, Regions(k \div 9)[k % 9]))) > 1

\* A rule's outcome after which step_basics returns: None or Some(true)
EndsStep(acc) == acc.none \/ acc.made_progress

\* C14: step_basics returns Some(true) only if it placed a cell or removed
\* a candidate, Some(false) only if it changed nothing, None only when a
\* contradiction holds; naked singles come first, then hidden singles, then
\* intersections, then subsets, and a rule runs only if the rules before it
\* made no progress.
C14_StepBasicsResult ==
    [][StepBasics =>
        /\ verdict'[1].result = <<TRUE>> => MadeProgress(state.solver, state'.solver)
        /\ verdict'[1].result = <<FALSE>> => state'.solver = state.solver
        /\ verdict'[1].result = <<>> => Contradiction(state'.solver)
        /\ EndsStep(do_naked_singles(state.solver)) =>
               state'.solver = do_naked_singles(state.solver).self
        /\ (~EndsStep(do_naked_singles(state.solver))
              /\ EndsStep(do_hidden_singles(state.solver))) =>
               state'.solver = do_hidden_singles(state.solver).self
        /\ (~EndsStep(do_naked_singles(state.solver))
              /\ ~EndsStep(do_hidden_singles(state.solver))
              /\ do_intersections(state.solver).made_progress) =>
               state'.solver = do_intersections(state.solver).self
        /\ (~EndsStep(do_naked_singles(state.solver))
              /\ ~EndsStep(do_hidden_singles(state.solver))
              /\ ~do_intersections(state.solver).made_progress) =>
               state'.solver = do_all_subsets(state.solver).self
    ]_vars

\* C14 witness: the puzzle that needs a subset step is stuck after it:
\* step_basics returned Some(false) with 67 cells placed.
C14_Witness ==
    /\ state.kind = "basic"
    /\ input.sudoku = InputGrid(SubsetCells, [blank |-> {}, set |-> {}])
    /\ verdict # <<>> /\ verdict[1].query = "step_basics"
    /\ verdict[1].result = <<FALSE>>
    /\ ~BasicSolver_is_solved(state.solver)

\* The number of candidates of the cells lo..hi, and of the whole grid
RECURSIVE CandidatesIn(_, _, _)
CandidatesIn(self, lo, hi) ==
    IF lo = hi THEN Cardinality(self.sukaku[lo])
    ELSE CandidatesIn(self, lo, (lo + hi) \div 2)
         + CandidatesIn(self, (lo + hi) \div 2 + 1, hi)

TotalCandidates(self) == CandidatesIn(self, 0, 80)

\* A call of step_basics that loses nothing: no fewer cells placed, no more
\* candidates; and, when it returns Some(true), more cells placed or fewer
\* candidates
StepAdvances(self, r) ==
    /\ r.self.placed_count >= self.placed_count
    /\ TotalCandidates(r.self) <= TotalCandidates(self)
    /\ r.result = <<TRUE>> =>
          \/ r.self.placed_count > self.placed_count
          \/ TotalCandidates(r.self) < TotalCandidates(self)

\* C31: a call of step_basics that returns Some(true) places a cell or
\* removes a candidate and no call undoes either, and the loop of
\* solve_basics ends on a solver for which step_basics no longer returns
\* Some(true).
C31_SolveBasicsTerminates ==
    state.kind = "basic" =>
        /\ StepAdvances(state.solver, step_basics(state.solver))
        /\ step_basics(solve_basics(state.solver)).result # <<TRUE>>

\* C31 witness: a call of step_basics that returns Some(true) for its
\* eliminations alone, no cell placed.
C31_Witness ==
    /\ state.kind = "basic"
    /\ step_basics(state.solver).result = <<TRUE>>
    /\ step_basics(state.solver).self.placed_count = state.solver.placed_count
    /\ state.solver.placed_count > 0

\* The eliminations that enumerating every subset of the unsolved cells of a
\* region would make: a cell outside a subset of k cells (2 <= k <= n - 2)
\* that holds k digits between them, and a digit of the subset it still has
UnionOf(self, cells) == UNION {self.sukaku[idx] : idx \in cells}

SubsetEliminations(self, region) ==
    LET unsolved == Range(unsolved_cells_of(self, region))
    IN  {<<idx, d>> \in unsolved \X ALL_DIGITS :
            /\ d \in self.sukaku[idx]
            /\ \E subset \in SUBSET (unsolved \ {idx}) :
                  /\ Cardinality(subset) >= 2
                  /\ Cardinality(subset) <= Cardinality(unsolved) - 2
                  /\ Cardinality(UnionOf(self, subset)) = Cardinality(subset)
                  /\ d \in UnionOf(self, subset)}

AllSubsetEliminations(self) ==
    UNION {SubsetEliminations(self, Regions(k \div 9)[k % 9]) : k \in 0..26}

\* C32: when step_basics returns Some(false), so that do_all_subsets found
\* nothing more to eliminate, enumerating all subsets of the unsolved cells
\* of the regions finds nothing either.
C32_SubsetsComplete ==
    (state.kind = "basic" /\ verdict # <<>> /\ verdict[1].query = "step_basics"
        /\ verdict[1].result = <<FALSE>>) =>
        AllSubsetEliminations(state.solver) = {}

\* The digits of the cells of a region that are marked placed
PlacedDigits(self, region) ==
    UNION {self.sukaku[region[k]] : k \in {j \in 1..9 : region[j] \in self.placed}}

\* C30: for every row, column and box the missing-digits mask is {1..9}
\* minus the digits of the region's placed cells, placed_count is the number
\* of placed cells (a cell placed twice would be counted twice), and the
\* digit of a placed cell is a candidate of none of its 20 peers.
C30_PlacedBookkeeping ==
    state.kind = "basic" =>
        /\ \A r \in 0..8 :
              /\ state.solver.missing_from_rows[r]
                    = ALL_DIGITS \ PlacedDigits(state.solver, ROWS[r])
              /\ state.solver.missing_from_cols[r]
                    = ALL_DIGITS \ PlacedDigits(state.solver, COLS[r])
              /\ state.solver.missing_from_boxes[r]
                    = ALL_DIGITS \ PlacedDigits(state.solver, BOXES[r])
        /\ state.solver.placed_count = Cardinality(state.solver.placed)
        /\ \A idx \in state.solver.placed : \A jdx \in PEERS(idx) :
              state.solver.sukaku[idx] \cap state.solver.sukaku[jdx] = {}

\* C30 witness: step_basics calls have placed the clues and at least one
\* cell the input left empty, on a puzzle that is not solved yet.
C30_Witness ==
    /\ state.kind = "basic"
    /\ verdict # <<>> /\ verdict[1].query = "step_basics"
    /\ verdict[1].result = <<TRUE>>
    /\ \E idx \in state.solver.placed : input.sudoku[idx] = 0
    /\ \E idx \in state.solver.placed : input.sudoku[idx] # 0
    /\ state.solver.placed_count < 81

\* C30 witness on a contradictory puzzle: step_basics has returned None
\* with cells placed.
C30_WitnessNone ==
    /\ state.kind = "basic"
    /\ verdict # <<>> /\ verdict[1].query = "step_basics"
    /\ verdict[1].result = <<>>
    /\ state.solver.placed_count > 0

\* Solutions of the checked puzzles: the solved grid and the grids it
\* becomes when its digits 7, 8 and 9 change places
HighDigits == <<<<7, 8, 9>>, <<7, 9, 8>>, <<8, 7, 9>>, <<8, 9, 7>>, <<9, 7, 8>>, <<9, 8, 7>>>>

KnownSolutions ==
    {[idx \in Cells |-> IF SolvedGrid[idx] >= 7 THEN h[SolvedGrid[idx] - 6]
                        ELSE SolvedGrid[idx]] @@ <<>> : h \in Range(HighDigits)}

SolutionOf(S, sudoku) == \A idx \in Cells : sudoku[idx] # 0 => S[idx] = sudoku[idx]

\* None of the solver's deductions has gone against the solution S
SoundFor(self, S) ==
    /\ \A idx \in Cells : S[idx] \in self.sukaku[idx]
    /\ \A idx \in self.placed : self.sukaku[idx] = {S[idx]}

\* C29: for a puzzle with a solution S, after any number of step_basics
\* calls every candidate mask holds S's digit of its cell, every placed cell
\* holds S's digit, and step_basics has not returned None.
C29_DeductionsSound ==
    state.kind = "basic" =>
        \A S \in KnownSolutions :
            SolutionOf(S, input.sudoku) =>
                /\ SoundFor(state.solver, S)
                /\ (verdict # <<>> /\ verdict[1].query = "step_basics")
                       => verdict[1].result # <<>>

\* C29 witness: on a puzzle with several solutions the subsets rule has
\* eliminated candidates and the solver is stuck, nothing of any of the six
\* solutions lost.
C29_Witness ==
    /\ state.kind = "basic"
    /\ \A S \in KnownSolutions : SolutionOf(S, input.sudoku)
    /\ verdict # <<>> /\ verdict[1].query = "step_basics"
    /\ verdict[1].result = <<FALSE>>
    /\ state.solver.placed_count > 0
    /\ \E idx \in Cells : input.sudoku[idx] = 0 /\ state.solver.sukaku[idx] # ALL_DIGITS

\* C29 witness of an elimination by a subset: the solver of the subsets
\* puzzle is stuck with candidates taken off beyond what the clues exclude.
C29_WitnessSubset ==
    /\ state.kind = "basic"
    /\ input.sudoku = InputGrid(SubsetCells, [blank |-> {}, set |-> {}])
    /\ verdict # <<>> /\ verdict[1].result = <<FALSE>>
    /\ \E idx \in Cells :
          /\ input.sudoku[idx] = 0
          /\ state.solver.sukaku[idx] # FreeDigits(input.sudoku, idx)
          /\ SolvedGrid[idx] \in state.solver.sukaku[idx]

-----------------------------------------------------------------------------
(* Filter (filter.rs) and the minlex form NonEquivalent keeps. minlex.rs   *)
(* is not among the sources: the form is the smallest relabelled image of  *)
(* the grid over a subgroup of the reorderings that preserve Sudoku.       *)

\* The most grids presented to one filter
MaxPresented == 3

\* The orders of three bands or of three stacks
Permutations3 ==
    <<<<0, 1, 2>>, <<0, 2, 1>>, <<1, 0, 2>>, <<1, 2, 0>>, <<2, 0, 1>>, <<2, 1, 0>>>>

\* The reorderings taken, numbered 0..71: the band orders, the stack orders
\* and the transpose
Ordering(k) ==
    [transpose |-> k \div 36 = 1,
     bands |-> Permutations3[((k \div 6) % 6) + 1],
     stacks |-> Permutations3[(k % 6) + 1]]

Reordered(o, sudoku) ==
    [idx \in Cells |->
        LET r == 3 * o.bands[((idx \div 9) \div 3) + 1] + ((idx \div 9) % 3)
            c == 3 * o.stacks[((idx % 9) \div 3) + 1] + ((idx % 9) % 3)
        IN  IF o.transpose THEN sudoku[9 * c + r] ELSE sudoku[9 * r + c]] @@ <<>>

\* Where every digit is first met in row-major order (81: nowhere)
FirstAmong(sudoku, clue_cells) ==
    [d \in 1..9 |-> Min({idx \in clue_cells : sudoku[idx] = d} \cup {81})] @@ <<>>

FirstAt(sudoku) == FirstAmong(sudoku, {idx \in Cells : sudoku[idx] # 0})

\* The digit map that numbers the digits in the order they are first met
DigitMap(first) ==
    [d \in 1..9 |-> 1 + Cardinality({e \in 1..9 : first[e] < first[d]})] @@ <<>>

Relabel(sudoku, map) ==
    [idx \in Cells |-> IF sudoku[idx] = 0 THEN 0 ELSE map[sudoku[idx]]] @@ <<>>

Relabelled(sudoku) == Relabel(sudoku, DigitMap(FirstAt(sudoku)))

Differing(a, b) == {i \in Cells : a[i] # b[i]}

\* Lexicographic order on the 81 cells in row-major order, 0 below 1..9
FirstLess(a, b, differing) ==
    differing = {} \/ a[Min(differing)] < b[Min(differing)]

LexLeq(a, b) == FirstLess(a, b, Differing(a, b))

Smaller(a, b) == IF LexLeq(a, b) THEN a ELSE b

\* The smallest relabelled image over the reorderings lo..hi
RECURSIVE minlex_over(_, _, _)
minlex_over(sudoku, lo, hi) ==
    IF lo = hi THEN Relabelled(Reordered(Ordering(lo), sudoku))
    ELSE Smaller(minlex_over(sudoku, lo, (lo + hi) \div 2),
                 minlex_over(sudoku, ((lo + hi) \div 2) + 1, hi))

minlex(sudoku) == minlex_over(sudoku, 0, 71)

\* HashSet::insert: the set after it and whether the value was new
HashSet_insert(set, value) ==
    [seen_minlexes |-> set \cup {value}, result |-> value \notin set]

\* non_equivalent keeping the grids as they come
non_equivalent_unreduced(sudoku, seen_minlexes) == HashSet_insert(seen_minlexes, sudoku)

non_equivalent(sudoku, seen_minlexes) == HashSet_insert(seen_minlexes, minlex(sudoku))

Filter_non_equivalent == [kind |-> "NonEquivalent", seen_minlexes |-> {}]

Filter_matched(self, r) ==
    [self |-> [self EXCEPT !.seen_minlexes = r.seen_minlexes], result |-> r.result]

\* Filter::matches: the filter after the call and the answer
Filter_matches(self, sudoku) ==
    CASE self.kind = "HasAnySolution" ->
           [self |-> self, result |-> has_solution(sudoku.sudoku)]
      [] self.kind = "HasUniqueSolution" ->
           [self |-> self, result |-> has_unique_solution(sudoku.sudoku)]
      [] self.kind = "NonEquivalent" ->
           Filter_matched(self, non_equivalent(sudoku.sudoku, self.seen_minlexes))

\* The grids presented, by their clues: one clue in a corner, another digit
\* in the same place of another band, two clues in a row, two in a column,
\* and no clue
PresentedClues ==
    {{<<0, 1>>}, {<<27, 5>>}, {<<0, 1>>, <<1, 2>>}, {<<0, 3>>, <<9, 1>>}, {}}

InitFilter ==
    /\ input = [kind |-> "filter"]
    /\ state = [kind |-> "filter", filter |-> Filter_non_equivalent]
    /\ verdict = <<>>
    /\ levels = <<>>
    /\ progress = RatZero
    /\ pc = "idle"
    /\ ret = "start"
    /\ last = <<>>
    /\ emitted = <<>>
    /\ calls = 0

Matched(sudoku, r) ==
    /\ state' = [state EXCEPT !.filter = r.self]
    /\ verdict' = Append(verdict, [query |-> "matches", sudoku |-> sudoku.sudoku,
                                   result |-> r.result])

Matches ==
    /\ state.kind = "filter"
    /\ Len(verdict) < MaxPresented
    /\ \E clues \in PresentedClues :
         Matched(PlaceAll(RegionMaskedSudoku_empty, clues),
                 Filter_matches(state.filter, PlaceAll(RegionMaskedSudoku_empty, clues)))
    /\ UNCHANGED <<levels, progress, pc, ret, last, emitted, calls, input>>

NextFilter == Matches

SpecFilter == InitFilter /\ [][NextFilter]_vars

\* The minlex form of every grid that may be presented, and the forms of the
\* grids presented so far
FormOf ==
    [sudoku \in {PlaceAll(RegionMaskedSudoku_empty, clues).sudoku : clues \in PresentedClues}
        |-> minlex(sudoku)] @@ <<>>

PresentedForms == [i \in 1..Len(verdict) |-> FormOf[verdict[i].sudoku]]

KeptIffFormUnseen(forms) ==
    /\ \A i \in 1..Len(verdict) :
         verdict[i].result = (\A j \in 1..(i - 1) : forms[j] # forms[i])
    /\ \A i, j \in 1..Len(verdict) :
         (j < i /\ verdict[j].sudoku = verdict[i].sudoku) => ~verdict[i].result
    /\ state.filter.seen_minlexes = Range(forms)

\* C17: a NonEquivalent filter keeps a grid iff no grid presented to it
\* before, kept or dropped, has the same minlex form; the same grid presented
\* again is dropped; the set of seen forms holds the forms of all grids
\* presented so far, so it only grows.
C17_KeptIffFormUnseen ==
    (state.kind = "filter" /\ state.filter.kind = "NonEquivalent") =>
        KeptIffFormUnseen(PresentedForms)

\* C17 witness: a grid was dropped that differs from every grid presented
\* before it, and a later grid was kept.
C17_Witness ==
    /\ state.kind = "filter" /\ Len(verdict) = 3
    /\ ~verdict[2].result /\ verdict[2].sudoku # verdict[1].sudoku
    /\ verdict[3].result

-----------------------------------------------------------------------------
(* BitIter, MaskIter and SubsetIter (bitmask.rs; bit_iter.rs holds the     *)
(* same BitIter and MaskIter), instantiated for u8. A mask is the integer  *)
(* it is in the program.                                                   *)

u8_BITS == 8
u8_MAX == 255

RECURSIVE bitand(_, _)
bitand(a, b) ==
    IF a = 0 \/ b = 0 THEN 0
    ELSE (a % 2) * (b % 2) + 2 * bitand(a \div 2, b \div 2)

RECURSIVE bitxor(_, _)
bitxor(a, b) ==
    IF a = 0 THEN b
    ELSE IF b = 0 THEN a
    ELSE ((a + b) % 2) + 2 * bitxor(a \div 2, b \div 2)

bitnot(a) == u8_MAX - a

wrapping_add(a, b) == (a + b) % (u8_MAX + 1)
wrapping_sub(a, b) == (a + (u8_MAX + 1) - b) % (u8_MAX + 1)

RECURSIVE trailing_zeros(_)
trailing_zeros(a) ==
    IF a = 0 THEN u8_BITS
    ELSE IF a % 2 = 1 THEN 0
    ELSE 1 + trailing_zeros(a \div 2)

RECURSIVE count_ones(_)
count_ones(a) == IF a = 0 THEN 0 ELSE (a % 2) + count_ones(a \div 2)

BitIter_from(val) == val

\* BitIter::next taking the highest set bit
BitIter_next_from_top(self) ==
    IF self # 0
    THEN [self |-> self - 2 ^ Max({i \in 0..(u8_BITS - 1) : 2 ^ i <= self}),
          item |-> <<Max({i \in 0..(u8_BITS - 1) : 2 ^ i <= self})>>]
    ELSE [self |-> self, item |-> <<>>]

\* BitIter::next: the iterator after the call and the item
BitIter_next(self) ==
    IF self # 0
    THEN [self |-> bitand(self, wrapping_sub(self, 1)),
          item |-> <<trailing_zeros(self)>>]
    ELSE [self |-> self, item |-> <<>>]

BitIter_len(self) == count_ones(self)

MaskIter_from(val) == val

\* MaskIter::next taking the bit above the yielded one out of the iterator
\* as well
MaskIter_next_wide(self) ==
    IF self # 0
    THEN [self |-> bitand(self, bitnot(bitand(3 * bitand(self, wrapping_add(bitnot(self), 1)), u8_MAX))),
          item |-> <<bitand(self, wrapping_add(bitnot(self), 1))>>]
    ELSE [self |-> self, item |-> <<>>]

\* MaskIter::next
MaskIter_next(self) ==
    IF self # 0
    THEN [self |-> bitxor(self, bitand(self, wrapping_add(bitnot(self), 1))),
          item |-> <<bitand(self, wrapping_add(bitnot(self), 1))>>]
    ELSE [self |-> self, item |-> <<>>]

MaskIter_len(self) == count_ones(self)

\* SubsetIter(val, Some(val))
SubsetIter_from(val) == [mask |-> val, subset |-> <<val>>]

\* SubsetIter::next going down by one without masking
SubsetIter_next_unmasked(self) ==
    IF self.subset # <<>>
    THEN [self |-> [self EXCEPT !.subset =
                        IF self.subset[1] = 0 THEN <<>> ELSE <<self.subset[1] - 1>>],
          item |-> self.subset]
    ELSE [self |-> self, item |-> <<>>]

\* SubsetIter::next
SubsetIter_next(self) ==
    IF self.subset # <<>>
    THEN [self |-> [self EXCEPT !.subset =
                        IF self.subset[1] = 0 THEN <<>>
                        ELSE <<bitand(self.subset[1] - 1, self.mask)>>],
          item |-> self.subset]
    ELSE [self |-> self, item |-> <<>>]

InitBits ==
    /\ \E x \in 0..u8_MAX :
         \/ /\ input = [kind |-> "BitIter", x |-> x]
            /\ state = [kind |-> "BitIter", self |-> BitIter_from(x)]
         \/ /\ input = [kind |-> "MaskIter", x |-> x]
            /\ state = [kind |-> "MaskIter", self |-> MaskIter_from(x)]
         \/ /\ input = [kind |-> "SubsetIter", x |-> x]
            /\ state = [kind |-> "SubsetIter", self |-> SubsetIter_from(x)]
    /\ emitted = <<>>
    /\ pc = "run"
    /\ ret = "start"
    /\ last = <<>>
    /\ levels = <<>>
    /\ progress = RatZero
    /\ calls = 0
    /\ verdict = <<>>

\* A call of next() gave r: a yielded item is kept; after the first None
\* one more call is made
Yielded(r) ==
    /\ state' = [state EXCEPT !.self = r.self]
    /\ IF r.item # <<>>
       THEN /\ emitted' = Append(emitted, r.item[1])
            /\ ret' = "some" /\ pc' = pc
       ELSE /\ emitted' = emitted
            /\ ret' = "none" /\ pc' = IF pc = "run" THEN "done" ELSE "fused"
    /\ UNCHANGED <<levels, progress, last, calls, input, verdict>>

BitIterNext ==
    state.kind = "BitIter" /\ pc \in {"run", "done"} /\ Yielded(BitIter_next(state.self))

MaskIterNext ==
    state.kind = "MaskIter" /\ pc \in {"run", "done"} /\ Yielded(MaskIter_next(state.self))

SubsetIterNext ==
    state.kind = "SubsetIter" /\ pc \in {"run", "done"} /\ Yielded(SubsetIter_next(state.self))

NextBits == BitIterNext \/ MaskIterNext \/ SubsetIterNext

SpecBits == InitBits /\ [][NextBits]_vars

\* Bit i of x is set; the number of set bits of x
HasBit(x, i) == (x \div (2 ^ i)) % 2 = 1
PopCount(x) == Cardinality({i \in 0..(u8_BITS - 1) : HasBit(x, i)})

\* C18: BitIter over x yields popcount(x) values, each the index of a set
\* bit of x, in strictly ascending order (so distinct), and len() is at any
\* moment the number of values still to come.
C18_BitIterAscendingIndices ==
    state.kind = "BitIter" =>
        /\ \A i \in 1..Len(emitted) : HasBit(input.x, emitted[i])
        /\ \A i \in 1..(Len(emitted) - 1) : emitted[i] < emitted[i + 1]
        /\ BitIter_len(state.self) = PopCount(input.x) - Len(emitted)
        /\ pc # "run" => Len(emitted) = PopCount(input.x)

\* C18 witness: the iterator over 10110100 has ended after yielding 2, 4, 5
\* and 7.
C18_Witness ==
    /\ state.kind = "BitIter" /\ input.x = 180 /\ pc = "done"
    /\ emitted = <<2, 4, 5, 7>>

\* y has no bit outside x
Submask(y, x) == \A i \in 0..(u8_BITS - 1) : HasBit(y, i) => HasBit(x, i)

\* C19: SubsetIter over x yields 2^popcount(x) pairwise distinct values, each
\* a submask of x, the first x and the last 0, and then ends; over 0 it
\* yields the single value 0.
C19_SubsetIterAllSubmasks ==
    state.kind = "SubsetIter" =>
        /\ Cardinality(Range(emitted)) = Len(emitted)
        /\ \A i \in 1..Len(emitted) : Submask(emitted[i], input.x)
        /\ emitted # <<>> => emitted[1] = input.x
        /\ Len(emitted) <= 2 ^ PopCount(input.x)
        /\ pc # "run" =>
             /\ Len(emitted) = 2 ^ PopCount(input.x)
             /\ emitted[Len(emitted)] = 0
        /\ (pc # "run" /\ input.x = 0) => emitted = <<0>>

\* C19 witness: the iterator over 00100110 has ended after eight values.
C19_Witness ==
    /\ state.kind = "SubsetIter" /\ input.x = 38 /\ pc = "fused"
    /\ Len(emitted) = 8

\* C20: MaskIter over x yields popcount(x) masks, each with exactly one bit
\* set, lowest bit first, whose XOR and whose OR are x.
C20_MaskIterSingleBits ==
    state.kind = "MaskIter" =>
        /\ \A i \in 1..Len(emitted) : PopCount(emitted[i]) = 1
        /\ \A i \in 1..(Len(emitted) - 1) : emitted[i] < emitted[i + 1]
        /\ Len(emitted) <= PopCount(input.x)
        /\ pc # "run" =>
             /\ Len(emitted) = PopCount(input.x)
             /\ \A b \in 0..(u8_BITS - 1) :
                  /\ HasBit(input.x, b) =
                       (Cardinality({i \in 1..Len(emitted) : HasBit(emitted[i], b)}) % 2 = 1)
                  /\ HasBit(input.x, b) = (\E i \in 1..Len(emitted) : HasBit(emitted[i], b))

\* C20 witness: the iterator over 11000001 has ended after yielding 1, 64
\* and 128.
C20_Witness ==
    /\ state.kind = "MaskIter" /\ input.x = 193 /\ pc = "done"
    /\ emitted = <<1, 64, 128>>

-----------------------------------------------------------------------------
(* Pipeline::into_iter (pipeline.rs): the base generator's iterator with a *)
(* filter or a flat_map laid over it for every step. The grid is one       *)
(* Rc<RefCell<..>> shared by the base search, the expansions' searches and *)
(* the items in flight. One action is one step() of the search that the    *)
(* pull of the consumer currently drives, with everything the iterators do *)
(* with its result.                                                        *)

\* The most steps of a checked pipeline
MaxStages == 2

RatSub(x, y) == RatAdd(x, <<0 - y[1], y[2]>>)
RatMul(x, y) == Rat(x[1] * y[1], x[2] * y[2])

\* DepthFirstSearcherWithProgress::new
DepthFirstSearcherWithProgress_new(start_state) ==
    [state |-> start_state, levels |-> <<>>, progress |-> RatZero]

GenerationBase_iter(template) ==
    DepthFirstSearcherWithProgress_new(for_template(template))

Expansion_expand(self, sudoku) ==
    DepthFirstSearcherWithProgress_new(
        for_sudoku_and_symmetry(self.n, sudoku, self.symmetry, self.excluded_cells))

PlusN(n, symmetry, excluded_cells) ==
    [kind |-> "PlusN", n |-> n, symmetry |-> symmetry, excluded_cells |-> excluded_cells]

\* PipelineStep; an Expansion step carries the inner iterator flat_map holds
\* (none before the first item and after the inner iterator ended), the
\* progress and scale of the item it expands and, as a record of the past,
\* the grid as it was when expand() received it
PipelineStep_Filter(filter) == [kind |-> "Filter", filter |-> filter]
PipelineStep_Expansion(expansion) ==
    [kind |-> "Expansion", expansion |-> expansion, frontiter |-> <<>>]

Item(pr, scale, sudoku) == [progress |-> pr, scale |-> scale, sudoku |-> sudoku]

\* The closure of the Expansion step over an item of the inner iterator
true_progress(outer, sub) ==
    Item(RatAdd(RatSub(outer.progress, outer.scale), RatMul(sub.progress, outer.scale)),
         RatMul(outer.scale, sub.scale), sub.sudoku)

\* An item on its way through the steps from step j on: the steps after it
\* and the item if it left the last step
RECURSIVE through(_, _, _)

\* through_filter dropping the items the filter matches
through_filter_inverted(steps, j, item, m) ==
    IF ~m.result
    THEN through([steps EXCEPT ![j].filter = m.self], j + 1, item)
    ELSE [steps |-> [steps EXCEPT ![j].filter = m.self], item |-> <<>>]

\* Iterator::filter over an item the filter answered m for
through_filter(steps, j, item, m) ==
    IF m.result
    THEN through([steps EXCEPT ![j].filter = m.self], j + 1, item)
    ELSE [steps |-> [steps EXCEPT ![j].filter = m.self], item |-> <<>>]

through(steps, j, item) ==
    IF j > Len(steps) THEN [steps |-> steps, item |-> <<item>>]
    ELSE IF steps[j].kind = "Filter"
    THEN through_filter(steps, j, item, Filter_matches(steps[j].filter, item.sudoku))
    ELSE [steps |-> [steps EXCEPT ![j].frontiter =
                        <<[searcher |-> Expansion_expand(steps[j].expansion, item.sudoku),
                           progress |-> item.progress, scale |-> item.scale,
                           input |-> item.sudoku]>>],
          item |-> <<>>]

\* The search a pull drives: that of the last Expansion step holding an inner
\* iterator (its number), the base search (0) if there is none
Driven(steps) ==
    Max({0} \cup {k \in 1..Len(steps) :
                    steps[k].kind = "Expansion" /\ steps[k].frontiter # <<>>})

DrivenSearcher(p) ==
    IF Driven(p.steps) = 0 THEN p.base
    ELSE p.steps[Driven(p.steps)].frontiter[1].searcher

\* The searcher after a step() that gave r
Stepped_searcher(r) == [state |-> r.state, levels |-> r.levels, progress |-> r.progress]

\* Every holder of the shared grid sees it
SharedBy(searcher, sudoku) == [searcher EXCEPT !.state.sudoku = sudoku]

SharedStep(stage, sudoku) ==
    IF stage.kind = "Expansion" /\ stage.frontiter # <<>>
    THEN [stage EXCEPT !.frontiter[1].searcher = SharedBy(@, sudoku)]
    ELSE stage

Shared(p, sudoku) ==
    [p EXCEPT !.base = SharedBy(@, sudoku),
              !.steps = [j \in 1..Len(p.steps) |-> SharedStep(p.steps[j], sudoku)]]

\* The pipeline with search k replaced by the one step() left
WithSearcher(p, k, r) ==
    Shared(IF k = 0 THEN [p EXCEPT !.base = Stepped_searcher(r)]
           ELSE [p EXCEPT !.steps[k].frontiter[1].searcher = Stepped_searcher(r)],
           r.state.sudoku)

\* The item search k yields after a step() that gave r with output o
Yield(p, k, r, o) ==
    IF k = 0 THEN Item(r.progress, progress_increment(r.levels), o)
    ELSE true_progress(p.steps[k].frontiter[1],
                       Item(r.progress, progress_increment(r.levels), o))

\* The item left the last step (f.item) or was dropped or taken up by an
\* Expansion step on its way
pipeline_flowed(p, k, o, f) ==
    /\ state' = [p EXCEPT !.steps = f.steps,
                          !.base_yielded = IF k = 0 THEN Append(@, o.sudoku) ELSE @]
    /\ pc' = "run"
    /\ IF f.item # <<>>
       THEN /\ ret' = "some"
            /\ emitted' = Append(emitted, [progress |-> f.item[1].progress,
                                           scale |-> f.item[1].scale,
                                           sudoku |-> f.item[1].sudoku.sudoku])
       ELSE /\ ret' = "cont" /\ emitted' = emitted

pipeline_output(p, k, r, o) ==
    IF o = <<>>
    THEN /\ state' = p /\ pc' = "run" /\ ret' = "cont" /\ emitted' = emitted
    ELSE pipeline_flowed(p, k, o[1], through(p.steps, k + 1, Yield(p, k, r, o[1])))

\* step() of search k gave r
pipeline_stepped(p, k, r) ==
    IF r.alive THEN pipeline_output(p, k, r, output(r.state))
    ELSE /\ emitted' = emitted
         /\ IF k = 0
            THEN /\ state' = p /\ pc' = "done" /\ ret' = "none"
            ELSE /\ state' = [p EXCEPT !.steps[k].frontiter = <<>>]
                 /\ pc' = "run" /\ ret' = "cont"

pipeline_step(k, r) == pipeline_stepped(WithSearcher(state, k, r), k, r)

PipelineNext ==
    /\ state.kind = "pipeline" /\ pc = "run"
    /\ RatLeq(DrivenSearcher(state).progress, <<MaxProgress, 1>>)
    /\ pipeline_step(Driven(state.steps),
                     step(DrivenSearcher(state).state, DrivenSearcher(state).levels,
                          DrivenSearcher(state).progress, <<>>))
    /\ UNCHANGED <<levels, progress, last, calls, input, verdict>>

\* The templates of the checked pipelines: the solved grid as givens, the
\* four cells of the rectangle apart; of those, one or two are
\* wildcards over the rectangle's two digits and the others empty
PipelineTemplate(wildcards) ==
    [i \in Cells |->
        IF i \in wildcards THEN Wildcard(<<2, 4>>)
        ELSE IF i \in RectangleCells THEN Empty
        ELSE Given(SolvedGrid[i])]

PipelineTemplates == {PipelineTemplate(w) : w \in {{19}, {19, 65}}}

PipelineSteps ==
    {PipelineStep_Filter([kind |-> "HasAnySolution"]),
     PipelineStep_Filter(Filter_non_equivalent)}
        \cup {PipelineStep_Expansion(PlusN(n, "Identity", {})) : n \in 1..MaxN}

Pipelines ==
    UNION {[1..len -> PipelineSteps] : len \in 0..MaxStages}

InitPipeline ==
    /\ \E template \in PipelineTemplates, steps \in Pipelines :
         /\ input = [kind |-> "pipeline", template |-> template, steps |-> steps]
         /\ state = [kind |-> "pipeline", base |-> GenerationBase_iter(template),
                     steps |-> steps, base_yielded |-> <<>>]
    /\ emitted = <<>>
    /\ pc = "run"
    /\ ret = "start"
    /\ last = <<>>
    /\ levels = <<>>
    /\ progress = RatZero
    /\ calls = 0
    /\ verdict = <<>>

NextPipeline == PipelineNext

SpecPipeline == InitPipeline /\ [][NextPipeline]_vars

\* sub is a subsequence of seq: its elements are found in seq in its order
RECURSIVE IsSubsequence(_, _)
IsSubsequence(sub, seq) ==
    IF sub = <<>> THEN TRUE
    ELSE IF seq = <<>> THEN FALSE
    ELSE IF Head(sub) = Head(seq) THEN IsSubsequence(Tail(sub), Tail(seq))
    ELSE IsSubsequence(sub, Tail(seq))

OnlyFilters(steps) == \A j \in 1..Len(steps) : steps[j].kind = "Filter"

\* The grids of seq for which no filter's predicate can be false: grids with
\* a completion where HasAnySolution is among the filters, grids whose
\* minlex form no other grid of seq has where NonEquivalent is
Kept(seq, steps) ==
    SelectSeq(seq, LAMBDA g :
        \A j \in 1..Len(steps) :
            /\ steps[j].filter.kind = "HasAnySolution" => Completions(g) > 0
            /\ steps[j].filter.kind = "NonEquivalent" =>
                   \A h \in Range(seq) \ {g} : minlex(h) # minlex(g))

EmittedGrids == [i \in 1..Len(emitted) |-> emitted[i].sudoku]

\* C15: a pipeline of filters only emits a subsequence of the grids the base
\* generator yields, in their order; a grid is dropped only where a filter's
\* predicate is false (the grids the filters keep are all emitted).
C15_FiltersEmitSubsequence ==
    (state.kind = "pipeline" /\ OnlyFilters(input.steps)) =>
        /\ IsSubsequence(EmittedGrids, state.base_yielded)
        /\ IsSubsequence(Kept(state.base_yielded, input.steps), EmittedGrids)

\* C15 witness: a pipeline with a filter has ended after it dropped two of
\* the base generator's four grids.
C15_Witness ==
    /\ state.kind = "pipeline" /\ OnlyFilters(input.steps) /\ input.steps # <<>>
    /\ pc = "done"
    /\ Len(state.base_yielded) = 4 /\ Len(emitted) = 2

\* C16: the progress values of the triples that leave the last step never
\* decrease, whatever the steps.
C16_ProgressNonDecreasing ==
    state.kind = "pipeline" =>
        \A i \in 1..(Len(emitted) - 1) :
            RatLeq(emitted[i].progress, emitted[i + 1].progress)

\* Search k of the pipeline returned None in this step: the Expansion step k
\* held an inner iterator and holds none after it
SubSearchEnded(k) ==
    /\ state.steps[k].kind = "Expansion"
    /\ state.steps[k].frontiter # <<>>
    /\ state'.steps[k].frontiter = <<>>

\* C39: when the sub-search of an Expansion step returns None, the shared
\* grid (cells and region masks) is the grid expand() received for that
\* input, so the search upstream goes on from a grid without any placement
\* of the searches downstream.
C39_ExhaustedSubSearchRestores ==
    [][state.kind = "pipeline" =>
        \A k \in 1..Len(state.steps) :
            SubSearchEnded(k) =>
                /\ state'.base.state.sudoku = state.steps[k].frontiter[1].input
                /\ Driven(state'.steps) < k]_vars

\* C39 witness: the sub-search of the second of two Expansion steps has
\* ended after it emitted grids, the first step's sub-search is still held
\* and the grid is the one the first step's search yielded (one clue more
\* than the base generator's grid).
C39_Witness ==
    /\ state.kind = "pipeline" /\ Len(state.steps) = 2
    /\ state.steps[1].kind = "Expansion" /\ state.steps[1].frontiter # <<>>
    /\ state.steps[2].kind = "Expansion" /\ state.steps[2].frontiter = <<>>
    /\ emitted # <<>> /\ ret = "cont" /\ pc = "run"
    /\ output(state.steps[1].frontiter[1].searcher.state) # <<>>
    /\ state.base.state.sudoku # state.steps[1].frontiter[1].input

\* x lies in [lo, hi]
RatWithin(x, lo, hi) == RatLeq(lo, x) /\ RatLeq(x, hi)

\* The triple new, emitted by the Expansion step that expands the input
\* triple outer, against the sub-search's levels after the step that gave it
InWindow(outer, new, sublevels) ==
    /\ RatWithin(new.progress, RatSub(outer.progress, outer.scale), outer.progress)
    /\ RatWithin(new.progress, RatZero, <<1, 1>>)
    /\ new.scale = RatMul(outer.scale, progress_increment(sublevels))

\* This step appended a triple that the sub-search of an Expansion step gave
ExpansionEmits ==
    /\ state.kind = "pipeline"
    /\ Driven(state.steps) > 0
    /\ Len(emitted') = Len(emitted) + 1

\* The part of InWindow about the scale
ScaleMultiplied(outer, new, sublevels) ==
    new.scale = RatMul(outer.scale, progress_increment(sublevels))

\* The part of InWindow about the input's window
InInputWindow(outer, new) ==
    RatWithin(new.progress, RatSub(outer.progress, outer.scale), outer.progress)

\* The scale of every triple an Expansion step emits is scale * subscale
EmittedScale ==
    [][ExpansionEmits =>
        ScaleMultiplied(state.steps[Driven(state.steps)].frontiter[1],
                        emitted'[Len(emitted')],
                        state'.steps[Driven(state.steps)].frontiter[1].searcher.levels)]_vars

\* The triples of sub-searches whose root has steps are in the window of
\* their input
FramedInInputWindow ==
    [][(ExpansionEmits
            /\ state'.steps[Driven(state.steps)].frontiter[1].searcher.levels # <<>>) =>
        InInputWindow(state.steps[Driven(state.steps)].frontiter[1],
                      emitted'[Len(emitted')])]_vars

\* The triples an Expansion step emits for the triples of the base
\* generator, in searches whose root has steps, are in [0, 1]
FirstExpansionInUnit ==
    [][(ExpansionEmits
            /\ \A j \in 1..(Driven(state.steps) - 1) : state.steps[j].kind = "Filter"
            /\ state'.steps[Driven(state.steps)].frontiter[1].searcher.levels # <<>>) =>
        RatWithin(emitted'[Len(emitted')].progress, RatZero, <<1, 1>>)]_vars

\* C40: every triple an Expansion step emits for an input triple (progress,
\* scale, grid) has its progress in [progress - scale, progress] and in
\* [0, 1] and has scale * subscale as its scale, also when the input triple
\* came out of an earlier Expansion step.
C40_EmittedInWindow ==
    [][ExpansionEmits =>
        InWindow(state.steps[Driven(state.steps)].frontiter[1],
                 emitted'[Len(emitted')],
                 state'.steps[Driven(state.steps)].frontiter[1].searcher.levels)]_vars

-----------------------------------------------------------------------------
(* Template::from_str (template.rs): a text is a sequence of characters,   *)
(* the Chars iterator the characters not yet consumed.                     *)

\* The longest tail of the checked template texts
MaxTail == 3

DigitChars == <<"1", "2", "3", "4", "5", "6", "7", "8", "9">>
OpenChars == {"[", "(", "{", "<"}

\* '1' <= d && d <= '9', and char::to_digit(10) of such a character
is_digit_char(c) == \E d \in 1..9 : DigitChars[d] = c
to_digit(c) == CHOOSE d \in 1..9 : DigitChars[d] = c

\* The loop of a wildcard: chars.next() consumes a character, the filter
\* ends the loop at the first that is no digit (and at the end of the text)
RECURSIVE wildcard_digits(_, _)

\* wildcard_digits leaving the character that ends the run in the iterator
wildcard_digits_peeking(chars, digits) ==
    IF chars = <<>> THEN [chars |-> chars, digits |-> digits]
    ELSE IF is_digit_char(Head(chars))
    THEN wildcard_digits(Tail(chars), Append(digits, to_digit(Head(chars))))
    ELSE [chars |-> chars, digits |-> digits]

wildcard_digits(chars, digits) ==
    IF chars = <<>> THEN [chars |-> chars, digits |-> digits]
    ELSE IF is_digit_char(Head(chars))
    THEN wildcard_digits(Tail(chars), Append(digits, to_digit(Head(chars))))
    ELSE [chars |-> Tail(chars), digits |-> digits]

wildcard_of(w) == [chars |-> w.chars, digit |-> <<Wildcard(w.digits)>>]

\* Template::next_digit: the iterator afterwards and the directive, if any
next_digit(chars) ==
    IF chars = <<>> THEN [chars |-> chars, digit |-> <<>>]
    ELSE IF is_digit_char(Head(chars))
    THEN [chars |-> Tail(chars), digit |-> <<Given(to_digit(Head(chars)))>>]
    ELSE IF Head(chars) \in OpenChars
    THEN wildcard_of(wildcard_digits(Tail(chars), <<>>))
    ELSE [chars |-> Tail(chars), digit |-> <<Empty>>]

\* One pass of while let Some(digit) = Self::next_digit(&mut chars)
\* { digits.push(digit); }; ended once next_digit gave None
from_str_pushed(self, n) ==
    IF n.digit = <<>> THEN [self EXCEPT !.ended = TRUE]
    ELSE [chars |-> n.chars, digits |-> Append(self.digits, n.digit[1]), ended |-> FALSE]

from_str_pass(self) ==
    IF self.ended THEN self ELSE from_str_pushed(self, next_digit(self.chars))

\* The loop, as its first passes followed by its other passes
RECURSIVE from_str_loop(_, _)
from_str_loop(self, passes) ==
    IF self.ended \/ passes = 0 THEN self
    ELSE IF passes = 1 THEN from_str_pass(self)
    ELSE from_str_loop(from_str_loop(self, passes \div 2), passes - (passes \div 2))

\* digits.try_into() for [TemplateDigit; 81]
try_into(digits) ==
    IF Len(digits) = 81 THEN Ok([i \in Cells |-> digits[i + 1]]) ELSE Err(digits)

\* Template::from_str; unwrap() panics on Err, which is the result Err here
Template_from_str(s) ==
    try_into(from_str_loop([chars |-> s, digits |-> <<>>, ended |-> FALSE], Len(s) + 1).digits)

\* The checked texts: 80 cells, with each kind of wildcard among them, and
\* every tail of up to MaxTail characters
TextHead ==
    <<"(", "1", "2", ")", ".", "3", "{", "4", "}", "<", "5", "6",
      ">", "0", "2", ".", "4", ".", "6", ".", "8", ".", "1", ".",
      "3", ".", "5", ".", "7", ".", "9", ".", "2", ".", "4", ".",
      "6", ".", "8", ".", "1", ".", "3", ".", "5", ".", "7", ".",
      "9", ".", "2", ".", "4", ".", "6", ".", "8", ".", "1", ".",
      "3", ".", "5", ".", "7", ".", "9", ".", "2", ".", "4", ".",
      "6", ".", "8", ".", "1", ".", "3", ".", "5", ".", "7", ".",
      "9", ".", "2", ".">>

TailChars == {"1", "2", "[", "]", " ", "\n"}

Texts == {TextHead \o tail : tail \in UNION {[1..len -> TailChars] : len \in 0..MaxTail}}

InitParse ==
    /\ \E s \in Texts :
         /\ input = [kind |-> "from_str", s |-> s]
         /\ state = [kind |-> "from_str", s |-> s]
    /\ emitted = <<>>
    /\ pc = "run"
    /\ ret = "start"
    /\ last = <<>>
    /\ levels = <<>>
    /\ progress = RatZero
    /\ calls = 0
    /\ verdict = <<>>

FromStr ==
    /\ state.kind = "from_str" /\ pc = "run"
    /\ verdict' = <<Template_from_str(state.s)>>
    /\ pc' = "done"
    /\ UNCHANGED <<state, levels, progress, ret, last, emitted, calls, input>>

NextParse == FromStr

SpecParse == InitParse /\ [][NextParse]_vars

WhitespaceChars == {" ", "\n"}
StripWhitespace(s) == SelectSeq(s, LAMBDA c : c \notin WhitespaceChars)

\* C21: whitespace in a template text is ignored: the text parses to what
\* the text without its spaces and newlines parses to.
C21_WhitespaceIgnored ==
    (state.kind = "from_str" /\ pc = "done") =>
        verdict[1] = Template_from_str(StripWhitespace(input.s))

\* The text read by position. A position begins a cell unless the nearest
\* character before it that is no digit is an opening character that begins
\* a cell itself; the digits after such a character are its wildcard's, and
\* the character that ends them belongs to it too.
LastNonDigit(s, i) == Max({0} \cup {p \in 1..(i - 1) : ~is_digit_char(s[p])})

RECURSIVE BeginsCell(_, _)
OpensBefore(s, p) == p > 0 /\ s[p] \in OpenChars /\ BeginsCell(s, p)

BeginsCell(s, i) == ~OpensBefore(s, LastNonDigit(s, i))

CellStarts(s) == SelectSeq([i \in 1..Len(s) |-> i], LAMBDA i : BeginsCell(s, i))

RunEnd(s, i) == Min({k \in (i + 1)..(Len(s) + 1) : k > Len(s) \/ ~is_digit_char(s[k])})
RunAfter(s, i) == [k \in 1..(RunEnd(s, i) - i - 1) |-> to_digit(s[i + k])]

DirectiveAt(s, i) ==
    IF is_digit_char(s[i]) THEN Given(to_digit(s[i]))
    ELSE IF s[i] \in OpenChars THEN Wildcard(RunAfter(s, i))
    ELSE Empty

Described(s, starts) == [k \in 1..Len(starts) |-> DirectiveAt(s, starts[k])]
DirectivesOf(s) == Described(s, CellStarts(s))

ParsedAs(result, directives) ==
    IF Len(directives) = 81
    THEN result.ok /\ \A i \in Cells : result.self[i] = directives[i + 1]
    ELSE ~result.ok

\* C27: a digit outside a wildcard is a Given; an opening character begins a
\* Wildcard of exactly the digits that follow it, and the character that ends
\* them is consumed without a cell; any other character is an Empty; the parse
\* succeeds exactly when 81 directives result.
C27_FromStrDirectives ==
    (state.kind = "from_str" /\ pc = "done") =>
        ParsedAs(verdict[1], DirectivesOf(input.s))

\* C27 witness: a text of 81 cells whose last is a closed wildcard has been
\* parsed.
C27_Witness ==
    /\ state.kind = "from_str" /\ pc = "done"
    /\ input.s = TextHead \o <<"[", "2", "]">>
    /\ verdict[1].ok
    /\ verdict[1].self[79] = Empty
    /\ verdict[1].self[80] = Wildcard(<<2>>)

====
